---- MODULE Spec2Model ----
(***************************************************************************)
(* goRPC: the multiplexing client (src/unnamed/part_000), the gob codec    *)
(* (src/timeout/main/main.go, lines 62-125), the per-connection server     *)
(* pipeline and the accept loop (src/service/server.go).                   *)
(*                                                                         *)
(* Spec / FairSpec : one Client, its callers, its receive goroutine and    *)
(*                   the peer at the other end of the connection.          *)
(* GoSpec          : the same client, callers handing Go any done channel. *)
(* CtxSpec         : the same client, callers of Call with a context.      *)
(* ServerSpec /                                                            *)
(* ServerFairSpec  : one server connection running serveCodec, with the    *)
(*                   handler goroutines it starts.                         *)
(* TimeoutSpec /                                                           *)
(* TimeoutFairSpec : that connection with handlers racing a timer.         *)
(* AcceptSpec      : Accept and ServeConn's handshake on each connection.  *)
(* LockFairSpec    : the client with each lock operation a step of its own *)
(*                   and callers of IsAvailable.                           *)
(* DiscoverySpec   : MultiServersDiscovery (src/registry/xclient/          *)
(*                   discovery.go), its Update and Get.                    *)
(* RegistrySpec    : GoRegistry (same file), its clock and its requests.   *)
(* BroadcastSpec   : one XClient.Broadcast (src/loadBalance/xclient/       *)
(*                   xclient.go) over a discovery.                         *)
(***************************************************************************)
EXTENDS Integers, Sequences, FiniteSets, TLC

\* ------------------------------------------------------------------ bounds
\* Call objects handed to Client.Go / Client.Call (one goroutine each).
MaxCalls == 2
\* Invocations of Client.Close.
MaxCloses == 2
\* Response headers whose Seq matches no request awaiting an answer
\* (duplicates of an answered Seq, or Seq 0).
MaxSpurious == 1
\* Requests the peer sends on one server connection.
MaxReqs == 3
\* Capacity of the one Done channel a caller may hand to Go for several Calls.
SharedDoneCap == 1
\* Connections the listener accepts.
MaxConns == 3
\* Requests served on one accepted connection.
MaxConnReqs == 2
\* Calls of IsAvailable.
MaxAvail == 1
\* Longest server list of a discovery.
MaxServers == 3
\* Largest start value of a discovery's round-robin index.
MaxInitIndex == 4
\* Calls of MultiServersDiscovery.Update.
MaxUpdates == 2
\* Calls of MultiServersDiscovery.Get.
MaxGets == 4
\* Largest timeout of a registry, in clock ticks.
MaxTimeout == 2
\* Clock ticks.
MaxTime == 3
\* Calls of GoRegistry.aliveServers.
MaxQueries == 3

\* ------------------------------------------------------------- client state
VARIABLES
  pc,         \* pc[c]: where the goroutine running Go/Call for Call c is
  callSeq,    \* Call.Seq
  callErr,    \* Call.Error
  callReply,  \* what Call.Reply holds: "empty" or "filled"
  doneArg,    \* the done argument Go was given for Call c ("none": Go not called yet)
  doneCap,    \* doneCap[ch]: cap of Done channel ch
  doneBuf,    \* doneBuf[ch]: number of values buffered in Done channel ch
  signals,    \* ghost: sends performed on Call.Done
  removals,   \* ghost: times removeCall returned this Call
  result,     \* what Client.Call returned to its caller
  sending,    \* Client.sending: 0 when free, else its holder
  mu,         \* Client.mu: 0 when free, else its holder
  header,     \* Client.header, the shared request header
  seq,        \* Client.seq
  pending,    \* Client.pending: function from Seq to Call
  closing,    \* Client.closing
  shutdown,   \* Client.shutdown
  buf,        \* GobCodec.buf: frames encoded and not yet flushed
  wire,       \* frames flushed to the connection, in order
  connClosed, \* the connection was closed on this side (conn.Close)
  codecCloses,\* ghost: calls of cc.Close made by Client.Close
  closeCalls, \* ghost: calls of Client.Close made so far
  closeRet,   \* what the latest Client.Close returned
  responded,  \* Seqs the peer has answered
  spurious,   \* spurious response headers delivered so far
  inNext,     \* the next unread frame of the response stream: "h" or "b"
  pcR,        \* where the receive goroutine is
  curSeq,     \* receive: h.Seq of the header just decoded
  curErr,     \* receive: h.Error of the header just decoded
  curCall,    \* receive: the Call removeCall returned (0: nil)
  termErr,    \* the err receive hands to terminateCalls
  termTodo    \* terminateCalls: entries of pending the range loop has not visited

\* ------------------------------------------------------------- server state
VARIABLES
  pcS,        \* where serveCodec's loop is
  nreq,       \* headers decoded on this connection so far
  reqH,       \* reqH[i]: the Header object of the i-th decoded header
  inSeq,      \* ghost: the Seq request i carried on the wire
  reqBody,    \* body frame of request i: "good", "bad" (does not decode)
  unread,     \* request whose body frame is next in the stream (0: a header is next)
  reqOutcome, \* ghost: how request i was settled
  respBody,   \* the body value handed to sendResponse for request i
  hstate,     \* hstate[i]: where the handler goroutine of request i is
  srvSending, \* serveCodec's sending mutex: 0 when free, else its holder
  out,        \* frames the server's codec has encoded, in order
  wg,         \* the WaitGroup counter
  srvClosed,  \* cc.Close was called by serveCodec
  writesAfterClose, \* ghost: response frames encoded after cc.Close
  bg          \* requests whose handler still runs after its timeout was answered

\* ------------------------------------------------------- accept loop state
VARIABLES
  lisOpen,    \* Server.Accept is in its loop
  connStage,  \* connStage[k]: "none", "accepted", "serving" or "closed"
  connOpt,    \* connOpt[k]: the Option ServeConn decoded on connection k
  connReads,  \* request headers read on connection k
  connWrites  \* frames written to connection k

clientVars == <<pc, callSeq, callErr, callReply, doneArg, inNext, doneCap, doneBuf, signals, removals,
                result, sending, mu, header, seq, pending, closing, shutdown,
                buf, wire, connClosed, codecCloses, closeCalls, closeRet, responded, spurious, pcR, curSeq, curErr, curCall,
                termErr, termTodo>>

acceptVars == <<lisOpen, connStage, connOpt, connReads, connWrites>>

VARIABLES
  availCalls, \* ghost: calls of Client.IsAvailable made so far
  availPc,    \* the caller of IsAvailable: "idle", or "locked" while it holds mu
  availRet    \* what IsAvailable returned last: "none", "true" or "false"

availVars == <<availCalls, availPc, availRet>>

VARIABLES
  dMade,      \* NewMultiServerDiscovery has run
  dServers,   \* MultiServersDiscovery.servers
  dIndex,     \* MultiServersDiscovery.index
  dGets,      \* ghost: calls of Get made so far
  dUpdates,   \* ghost: calls of Update made so far
  dMode,      \* the mode of the last Get
  dSel,       \* the position the last Get indexed servers with (-1: none)
  dRet,       \* what the last Get returned: [server, err]
  rrLog       \* ghost: positions the round-robin Gets selected since servers changed

discoveryVars == <<dMade, dServers, dIndex, dGets, dUpdates, dMode, dSel, dRet, rrLog>>

VARIABLES
  rMade,      \* New has made the registry
  rTimeout,   \* GoRegistry.timeout, in clock ticks
  rServers,   \* GoRegistry.servers: function from Addr to ServerItem.start
  now,        \* what time.Now() returns
  rAlive,     \* what the last aliveServers returned
  rStatus,    \* the status of the last ServeHTTP response (0: none yet)
  rQueries,   \* ghost: calls of aliveServers made so far
  beat,       \* ghost: time of the last putServer of each address (-1: never)
  late,       \* ghost: addresses whose last heartbeat was once timeout old or older
  gone        \* ghost: addresses a query left out since their last putServer

registryVars == <<rMade, rTimeout, rServers, now, rAlive, rStatus, rQueries,
                  beat, late, gone>>

VARIABLES
  bcPc,        \* Broadcast: "idle", "loop" (starting goroutines), "wait" or "returned"
  bcServers,   \* Broadcast's servers, the copy GetAll returned
  bcReplyNil,  \* the caller passed a nil reply
  bcG,         \* bcG[i]: goroutine i is "none", in "call", at "record" or "done"
  bcErr,       \* bcErr[i]: what xc.call returned in goroutine i ("none": not yet)
  bcE,         \* Broadcast's e: the error kept and the goroutine it came from
  bcReplyDone, \* Broadcast's replyDone
  bcReply,     \* the caller's reply: 0 untouched, i the reply of goroutine i's call
  bcWrites,    \* ghost: times the caller's reply was set
  bcCancels,   \* ghost: calls of cancel()
  bcWg,        \* the WaitGroup's counter
  bcOrder,     \* ghost: the goroutines in the order they held mu
  bcRet        \* what Broadcast returned

broadcastVars == <<bcPc, bcServers, bcReplyNil, bcG, bcErr, bcE, bcReplyDone,
                   bcReply, bcWrites, bcCancels, bcWg, bcOrder, bcRet>>

extraVars == <<availVars, discoveryVars, registryVars, broadcastVars>>

connVars == <<pcS, nreq, reqH, inSeq, reqBody, unread, reqOutcome, respBody,
              hstate, srvSending, out, wg, srvClosed, writesAfterClose, bg,
              acceptVars>>

serverVars == <<connVars, extraVars>>

vars == <<clientVars, serverVars>>

\* ------------------------------------------------------------ client model
Calls == 1 .. MaxCalls

\* A nil *Call.
NoCall == 0

\* The holder id of the receive goroutine in sending and mu.
RecvId == -1

\* Client.Call hands Go a channel made with capacity 1.
CallDoneCap == 1

\* Go makes a channel of capacity 10 when it is given none.
GoDoneCap == 10

\* seq of a new client: 1 means the start, 0 is never a valid call.
FirstSeq == 1

\* The Done channels: channel c is Call c's own one, SharedChan is the one a
\* caller made once and hands to Go for several Calls.
SharedChan == MaxCalls + 1

Chans == 1 .. SharedChan

\* What a caller can hand to Go as done: nil, an unbuffered channel, a fresh
\* channel of capacity 1 (as Client.Call does), or the shared channel.
DoneArgs == {"nil", "unbuffered", "buffered", "shared"}

\* The callers of the client's own API: odd ones use Client.Call (a Done
\* channel of capacity 1), even ones use Go with a nil channel (capacity 10)
\* and read call.Done later.
DoneArgOf(c) == IF c % 2 = 1 THEN "buffered" ELSE "nil"

\* Call.Done of Call c.
ChanOf(c) == IF doneArg[c] = "shared" THEN SharedChan ELSE c

\* The service method a caller asks for.
MethodOf(c) == IF c % 2 = 1 THEN "Foo.Sum" ELSE "Foo.Echo"

ErrShutdown == "connecting is shut down"

\* Call.Error after the codec's Write failed (the encoder's error).
WriteErr == "write error"

\* h.Error of a response whose handler or lookup failed on the server.
SrvErr == "server error"

\* Call.Error after the body of a matched response did not decode.
BodyErr == "reading body"

\* The error the gob decoder returns once nothing more can be read: the
\* connection's own error when this side closed it, end of stream when the
\* peer went away.
ReadError == IF connClosed THEN "use of closed network connection" ELSE "EOF"

ReadErrors == {"use of closed network connection", "EOF"}

\* A frame the gob encoder produced: a header (k = "h") or a body (k = "b").
HeaderFrame(h, c) == [k |-> "h", ServiceMethod |-> h.ServiceMethod, Seq |-> h.Seq, by |-> c]

BodyFrame(c) == [k |-> "b", ServiceMethod |-> "", Seq |-> 0, by |-> c]

\* Seqs of the requests that are on the wire whole: a header frame directly
\* followed by a body frame.
CompleteReqs == {wire[i].Seq : i \in {j \in 1 .. Len(wire) - 1 :
                                       wire[j].k = "h" /\ wire[j + 1].k = "b"}}

\* The Calls held in the pending table.
PendingCalls == {pending[s] : s \in DOMAIN pending}

\* call.Done <- call blocks while the channel's buffer is full.
CanDone(c) == doneBuf[ChanOf(c)] < doneCap[ChanOf(c)]

\* call.done()
done(c) ==
  /\ doneBuf' = [doneBuf EXCEPT ![ChanOf(c)] = @ + 1]
  /\ signals' = [signals EXCEPT ![c] = @ + 1]

\* Mutant of registerCallFails: the closing flag is not consulted.
registerCallFails_ShutdownOnly == shutdown

\* registerCall refuses the call.
registerCallFails == closing \/ shutdown

\* Mutant of removeCallResult: the oldest pending Call is taken, whatever the
\* header's Seq (responses matched by arrival order).
removeCallResult_Oldest(s) ==
  IF DOMAIN pending = {} THEN NoCall
  ELSE pending[CHOOSE k \in DOMAIN pending : \A j \in DOMAIN pending : k <= j]

\* removeCall: the Call it returns (nil when the table has no such key) ...
removeCallResult(s) == IF s \in DOMAIN pending THEN pending[s] ELSE NoCall

\* Mutant of removeCallTable: the delete is missing.
removeCallTable_NoDelete(s) == pending

\* ... and the table it leaves.
removeCallTable(s) == [k \in DOMAIN pending \ {s} |-> pending[k]]

ClientInit ==
  /\ pc = [c \in Calls |-> "idle"]
  /\ callSeq = [c \in Calls |-> 0]
  /\ callErr = [c \in Calls |-> "nil"]
  /\ callReply = [c \in Calls |-> "empty"]
  /\ doneArg = [c \in Calls |-> "none"]
  /\ doneCap = [ch \in Chans |-> IF ch = SharedChan THEN SharedDoneCap ELSE 0]
  /\ doneBuf = [ch \in Chans |-> 0]
  /\ signals = [c \in Calls |-> 0]
  /\ removals = [c \in Calls |-> 0]
  /\ result = [c \in Calls |-> "none"]
  /\ sending = 0
  /\ mu = 0
  /\ header = [ServiceMethod |-> "", Seq |-> 0, Error |-> ""]
  /\ seq = FirstSeq
  /\ pending = [s \in {} |-> NoCall]
  /\ closing = FALSE
  /\ shutdown = FALSE
  /\ buf = << >>
  /\ wire = << >>
  /\ connClosed = FALSE
  /\ codecCloses = 0
  /\ closeCalls = 0
  /\ closeRet = "none"
  /\ responded = {}
  /\ spurious = 0
  /\ inNext = "h"
  /\ pcR = "header"
  /\ curSeq = 0
  /\ curErr = ""
  /\ curCall = NoCall
  /\ termErr = "nil"
  /\ termTodo = {}

\* Mutant of Go: the capacity of the channel is not looked at.
Go_NoCapCheck(c, d) ==
  /\ pc[c] = "idle"
  /\ doneArg' = [doneArg EXCEPT ![c] = d]
  /\ doneCap' = IF d = "shared" THEN doneCap
                ELSE [doneCap EXCEPT ![c] = IF d = "nil" THEN GoDoneCap
                                            ELSE IF d = "unbuffered" THEN 0
                                            ELSE CallDoneCap]
  /\ pc' = [pc EXCEPT ![c] = "lock"]
  /\ UNCHANGED serverVars
  /\ UNCHANGED inNext
  /\ UNCHANGED <<buf, callSeq, callErr, callReply, doneBuf, signals, removals, result,
                 sending, mu, header, seq, pending, closing, shutdown, wire,
                 connClosed, codecCloses, closeCalls, closeRet, responded,
                 spurious, pcR, curSeq, curErr, curCall, termErr, termTodo>>

\* Go(serviceMethod, args, reply, done) for Call c, d telling what done is: a
\* nil done is replaced by a channel of capacity 10, an unbuffered one makes
\* Go panic (the goroutine stops there), and the new Call is handed to send.
Go(c, d) ==
  /\ pc[c] = "idle"
  /\ doneArg' = [doneArg EXCEPT ![c] = d]
  /\ IF d = "unbuffered"
       THEN /\ pc' = [pc EXCEPT ![c] = "panicked"]
            /\ UNCHANGED doneCap
       ELSE /\ pc' = [pc EXCEPT ![c] = "lock"]
            /\ doneCap' = IF d = "shared" THEN doneCap
                          ELSE [doneCap EXCEPT ![c] = IF d = "nil" THEN GoDoneCap
                                                      ELSE CallDoneCap]
  /\ UNCHANGED serverVars
  /\ UNCHANGED inNext
  /\ UNCHANGED <<buf, callSeq, callErr, callReply, doneBuf, signals, removals, result,
                 sending, mu, header, seq, pending, closing, shutdown, wire,
                 connClosed, codecCloses, closeCalls, closeRet, responded,
                 spurious, pcR, curSeq, curErr, curCall, termErr, termTodo>>

\* Mutant of sendLock: send goes on without taking the send lock.
sendLock_NoLock(c) ==
  /\ pc[c] = "lock"
  /\ pc' = [pc EXCEPT ![c] = "register"]
  /\ UNCHANGED serverVars
  /\ UNCHANGED <<doneArg, inNext>>
  /\ UNCHANGED <<buf, callSeq, callErr, callReply, doneCap, doneBuf, signals,
                 removals, result, sending, mu, header, seq, pending, closing,
                 shutdown, wire, connClosed, codecCloses, closeCalls, closeRet,
                 responded, spurious, pcR, curSeq, curErr, curCall, termErr,
                 termTodo>>

\* send: c.sending.Lock()
sendLock(c) ==
  /\ pc[c] = "lock"
  /\ sending = 0
  /\ sending' = c
  /\ pc' = [pc EXCEPT ![c] = "register"]
  /\ UNCHANGED serverVars
  /\ UNCHANGED <<doneArg, inNext>>
  /\ UNCHANGED <<buf, callSeq, callErr, callReply, doneCap, doneBuf, signals, removals,
                 result, mu, header, seq, pending, closing, shutdown, wire,
                 connClosed, codecCloses, closeCalls, closeRet, responded,
                 spurious, pcR, curSeq, curErr, curCall, termErr, termTodo>>

\* send: the deferred c.sending.Unlock() of the goroutine running c.
sendUnlock(c) == sending' = IF sending = c THEN 0 ELSE sending

\* Mutant of sendRegister: registerCall does not advance c.seq.
sendRegister_NoIncrement(c) ==
  /\ pc[c] = "register"
  /\ mu = 0
  /\ IF registerCallFails
       THEN /\ CanDone(c)
            /\ callErr' = [callErr EXCEPT ![c] = ErrShutdown]
            /\ done(c)
            /\ sendUnlock(c)
            /\ pc' = [pc EXCEPT ![c] = "wait"]
            /\ UNCHANGED <<callSeq, pending, seq, header>>
       ELSE /\ callSeq' = [callSeq EXCEPT ![c] = seq]
            /\ pending' = [s \in DOMAIN pending \cup {seq} |->
                             IF s = seq THEN c ELSE pending[s]]
            /\ seq' = seq
            /\ header' = [ServiceMethod |-> MethodOf(c), Seq |-> seq, Error |-> ""]
            /\ pc' = [pc EXCEPT ![c] = "writeH"]
            /\ UNCHANGED <<callErr, doneBuf, signals, sending>>
  /\ UNCHANGED serverVars
  /\ UNCHANGED <<doneArg, inNext>>
  /\ UNCHANGED <<buf, callReply, doneCap, removals, result, mu, closing, shutdown, wire,
                 connClosed, codecCloses, closeCalls, closeRet, responded,
                 spurious, pcR, curSeq, curErr, curCall, termErr, termTodo>>

\* send: registerCall under mu; when it fails the call is completed with
\* ErrShutdown and send returns; otherwise the shared header is prepared.
sendRegister(c) ==
  /\ pc[c] = "register"
  /\ mu = 0
  /\ IF registerCallFails
       THEN /\ CanDone(c)
            /\ callErr' = [callErr EXCEPT ![c] = ErrShutdown]
            /\ done(c)
            /\ sendUnlock(c)
            /\ pc' = [pc EXCEPT ![c] = "wait"]
            /\ UNCHANGED <<callSeq, pending, seq, header>>
       ELSE /\ callSeq' = [callSeq EXCEPT ![c] = seq]
            /\ pending' = [s \in DOMAIN pending \cup {seq} |->
                             IF s = seq THEN c ELSE pending[s]]
            /\ seq' = seq + 1
            /\ header' = [ServiceMethod |-> MethodOf(c), Seq |-> seq, Error |-> ""]
            /\ pc' = [pc EXCEPT ![c] = "writeH"]
            /\ UNCHANGED <<callErr, doneBuf, signals, sending>>
  /\ UNCHANGED serverVars
  /\ UNCHANGED <<doneArg, inNext>>
  /\ UNCHANGED <<buf, callReply, doneCap, removals, result, mu, closing, shutdown, wire,
                 connClosed, codecCloses, closeCalls, closeRet, responded,
                 spurious, pcR, curSeq, curErr, curCall, termErr, termTodo>>

\* GobCodec.Write's deferred g.buf.Flush(): what is buffered goes to the
\* connection; a closed connection takes nothing and the error is dropped.
Flush(frames) == IF connClosed THEN wire ELSE wire \o frames

\* send: cc.Write, first half: the encoder puts c.header in the buffer; when
\* Encode fails, Write flushes, closes the connection and returns the error.
sendWriteHeader(c) ==
  /\ pc[c] = "writeH"
  /\ \/ /\ buf' = Append(buf, HeaderFrame(header, c))
        /\ pc' = [pc EXCEPT ![c] = "writeB"]
        /\ UNCHANGED <<wire, connClosed>>
     \/ /\ wire' = Flush(buf)
        /\ buf' = << >>
        /\ connClosed' = TRUE
        /\ pc' = [pc EXCEPT ![c] = "wfail"]
  /\ UNCHANGED serverVars
  /\ UNCHANGED <<doneArg, inNext>>
  /\ UNCHANGED <<callSeq, callErr, callReply, doneCap, doneBuf,
                 signals, removals, result, sending, mu, header, seq, pending,
                 closing, shutdown, codecCloses, closeCalls, closeRet, responded,
                 spurious, pcR, curSeq, curErr, curCall, termErr, termTodo>>

\* send: cc.Write, second half: the encoder puts call.Args in the buffer, the
\* buffer is flushed and send returns; when Encode fails, Write flushes,
\* closes the connection and returns the error.
sendWriteBody(c) ==
  /\ pc[c] = "writeB"
  /\ \/ /\ wire' = Flush(Append(buf, BodyFrame(c)))
        /\ buf' = << >>
        /\ pc' = [pc EXCEPT ![c] = "wait"]
        /\ sendUnlock(c)
        /\ UNCHANGED connClosed
     \/ /\ wire' = Flush(buf)
        /\ buf' = << >>
        /\ connClosed' = TRUE
        /\ pc' = [pc EXCEPT ![c] = "wfail"]
        /\ UNCHANGED sending
  /\ UNCHANGED serverVars
  /\ UNCHANGED <<doneArg, inNext>>
  /\ UNCHANGED <<callSeq, callErr, callReply, doneCap, doneBuf,
                 signals, removals, result, mu, header, seq, pending, closing,
                 shutdown, codecCloses, closeCalls, closeRet, responded,
                 spurious, pcR, curSeq, curErr, curCall, termErr, termTodo>>

\* send: Write failed: removeCall(seq) and, when the call was still pending,
\* it is completed with the write error; then send returns.
sendWriteFail(c) ==
  /\ pc[c] = "wfail"
  /\ mu = 0
  /\ LET call == removeCallResult(callSeq[c]) IN
       /\ pending' = removeCallTable(callSeq[c])
       /\ IF call # NoCall
            THEN /\ CanDone(call)
                 /\ removals' = [removals EXCEPT ![call] = @ + 1]
                 /\ callErr' = [callErr EXCEPT ![call] = WriteErr]
                 /\ done(call)
            ELSE UNCHANGED <<removals, callErr, doneBuf, signals>>
  /\ sendUnlock(c)
  /\ pc' = [pc EXCEPT ![c] = "wait"]
  /\ UNCHANGED serverVars
  /\ UNCHANGED <<doneArg, inNext>>
  /\ UNCHANGED <<buf, callSeq, callReply, doneCap, result, mu, header, seq, closing,
                 shutdown, wire, connClosed, codecCloses, closeCalls, closeRet,
                 responded, spurious, pcR, curSeq, curErr, curCall, termErr,
                 termTodo>>

\* Call: <-call.Done, then return call.Error (a caller of Go does the same
\* when it comes to read the channel); the Call received is one that was sent.
CallReturn(c) ==
  /\ pc[c] = "wait"
  /\ signals[c] > 0
  /\ doneBuf[ChanOf(c)] > 0
  /\ doneBuf' = [doneBuf EXCEPT ![ChanOf(c)] = @ - 1]
  /\ result' = [result EXCEPT ![c] = callErr[c]]
  /\ pc' = [pc EXCEPT ![c] = "returned"]
  /\ UNCHANGED serverVars
  /\ UNCHANGED <<doneArg, inNext>>
  /\ UNCHANGED <<buf, callSeq, callErr, callReply, doneCap, signals, removals, sending,
                 mu, header, seq, pending, closing, shutdown, wire, connClosed,
                 codecCloses, closeCalls, closeRet, responded, spurious, pcR,
                 curSeq, curErr, curCall, termErr, termTodo>>

\* The error of a context that was cancelled or whose deadline passed.
CtxErr == "context error"

\* Mutant of CallCancelled: the cancelled Call is taken out of the pending
\* table.
CallCancelled_RemoveCall(c) ==
  /\ pc[c] = "wait"
  /\ doneArg[c] = "buffered"
  /\ doneBuf[ChanOf(c)] = 0
  /\ result' = [result EXCEPT ![c] = CtxErr]
  /\ pc' = [pc EXCEPT ![c] = "cancelled"]
  /\ pending' = removeCallTable(callSeq[c])
  /\ UNCHANGED serverVars
  /\ UNCHANGED <<callSeq, callErr, callReply, doneArg, inNext, doneCap,
                 doneBuf, signals, removals, sending, mu, header, seq,
                 closing, shutdown, buf, wire, connClosed, codecCloses,
                 closeCalls, closeRet, responded, spurious, pcR, curSeq,
                 curErr, curCall, termErr, termTodo>>

\* Call with a context: the caller waits for the completion signal of its
\* Call or for the context; when the context is cancelled or expires before
\* the signal, Call returns the context's error at once and the Call is left
\* as it is.
CallCancelled(c) ==
  /\ pc[c] = "wait"
  /\ doneArg[c] = "buffered"
  /\ doneBuf[ChanOf(c)] = 0
  /\ result' = [result EXCEPT ![c] = CtxErr]
  /\ pc' = [pc EXCEPT ![c] = "cancelled"]
  /\ UNCHANGED serverVars
  /\ UNCHANGED <<callSeq, callErr, callReply, doneArg, inNext, doneCap,
                 doneBuf, signals, removals, sending, mu, header, seq,
                 pending, closing, shutdown, buf, wire, connClosed,
                 codecCloses, closeCalls, closeRet, responded, spurious, pcR,
                 curSeq, curErr, curCall, termErr, termTodo>>

\* Mutant of Close: the closing flag is set and not consulted.
Close_NoGuard ==
  /\ closeCalls < MaxCloses
  /\ mu = 0
  /\ closeCalls' = closeCalls + 1
  /\ closing' = TRUE
  /\ connClosed' = TRUE
  /\ codecCloses' = codecCloses + 1
  /\ closeRet' = IF connClosed THEN "use of closed network connection" ELSE "nil"
  /\ UNCHANGED serverVars
  /\ UNCHANGED <<doneArg, inNext>>
  /\ UNCHANGED <<buf, pc, callSeq, callErr, callReply, doneCap, doneBuf, signals,
                 removals, result, sending, mu, header, seq, pending, shutdown,
                 wire, responded, spurious, pcR, curSeq, curErr, curCall,
                 termErr, termTodo>>

\* Close, under mu: a client that is closing returns ErrShutdown; otherwise it
\* is marked closing and the result of cc.Close() is returned (conn.Close
\* fails on a connection that a failed Write has closed already).
Close ==
  /\ closeCalls < MaxCloses
  /\ mu = 0
  /\ closeCalls' = closeCalls + 1
  /\ IF closing
       THEN /\ closeRet' = ErrShutdown
            /\ UNCHANGED <<closing, connClosed, codecCloses>>
       ELSE /\ closing' = TRUE
            /\ connClosed' = TRUE
            /\ codecCloses' = codecCloses + 1
            /\ closeRet' = IF connClosed THEN "use of closed network connection"
                                         ELSE "nil"
  /\ UNCHANGED serverVars
  /\ UNCHANGED <<doneArg, inNext>>
  /\ UNCHANGED <<buf, pc, callSeq, callErr, callReply, doneCap, doneBuf, signals,
                 removals, result, sending, mu, header, seq, pending, shutdown,
                 wire, responded, spurious, pcR, curSeq, curErr, curCall,
                 termErr, termTodo>>

\* receive: ReadHeader decoded the header frame that is next in the response
\* stream (h.Seq = s, h.Error = e), and removeCall(h.Seq).  The peer answers a request that is on the wire whole,
\* once; a header for an answered Seq or for Seq 0 is spurious.
receiveHeader(s, e) ==
  /\ pcR = "header"
  /\ inNext = "h"
  /\ inNext' = "b"
  /\ mu = 0
  /\ \/ /\ s \in CompleteReqs \ responded
        /\ responded' = responded \cup {s}
        /\ UNCHANGED spurious
     \/ /\ s \in responded \cup {0}
        /\ spurious < MaxSpurious
        /\ spurious' = spurious + 1
        /\ UNCHANGED responded
  /\ curSeq' = s
  /\ curErr' = e
  /\ curCall' = removeCallResult(s)
  /\ pending' = removeCallTable(s)
  /\ removals' = [c \in Calls |-> IF c = removeCallResult(s)
                                    THEN removals[c] + 1 ELSE removals[c]]
  /\ pcR' = "body"
  /\ UNCHANGED serverVars
  /\ UNCHANGED doneArg
  /\ UNCHANGED <<buf, pc, callSeq, callErr, callReply, doneCap, doneBuf, signals,
                 result, sending, mu, header, seq, closing, shutdown, wire,
                 connClosed, codecCloses, closeCalls, closeRet, termErr,
                 termTodo>>

\* receive: ReadHeader returned an error (the connection was closed or ended,
\* or the frame that is next is not a header): the loop ends.
receiveHeaderError ==
  /\ pcR = "header"
  /\ termErr' = ReadError
  /\ pcR' = "terminate"
  /\ UNCHANGED serverVars
  /\ UNCHANGED <<doneArg, inNext>>
  /\ UNCHANGED <<buf, pc, callSeq, callErr, callReply, doneCap, doneBuf, signals,
                 removals, result, sending, mu, header, seq, pending, closing,
                 shutdown, wire, connClosed, codecCloses, closeCalls, closeRet,
                 responded, spurious, curSeq, curErr, curCall, termTodo>>

\* Mutant of AfterReadBody: no body is read when no Call matched.
AfterReadBody_SkipUnmatched(call) == IF call = NoCall THEN "b" ELSE "h"

\* The frame that is next in the response stream after c.cc.ReadBody: the
\* gob decoder takes one value off the stream, into call.Reply or, given nil,
\* into nothing; a header is next.
AfterReadBody(call) == "h"

\* receive: the switch on the removed call: ReadBody (ok: it decoded), the
\* call's Error or Reply, call.done(); the loop goes on while err is nil.
\* call.Error = fmt.Errorf(h.Error) has the text of h.Error, which holds no
\* formatting verb here.
receiveBody(ok) ==
  /\ pcR = "body"
  /\ IF curCall = NoCall
       THEN UNCHANGED <<callErr, callReply, doneBuf, signals>>
       ELSE /\ CanDone(curCall)
            /\ done(curCall)
            /\ IF curErr # ""
                 THEN /\ callErr' = [callErr EXCEPT ![curCall] = curErr]
                      /\ UNCHANGED callReply
                 ELSE IF ok
                   THEN /\ callReply' = [callReply EXCEPT ![curCall] = "filled"]
                        /\ UNCHANGED callErr
                   ELSE /\ callErr' = [callErr EXCEPT ![curCall] = BodyErr]
                        /\ UNCHANGED callReply
  /\ IF ok
       THEN /\ pcR' = "header"
            /\ UNCHANGED termErr
       ELSE /\ pcR' = "terminate"
            /\ termErr' = ReadError
  /\ curCall' = NoCall
  /\ inNext' = AfterReadBody(curCall)
  /\ UNCHANGED serverVars
  /\ UNCHANGED doneArg
  /\ UNCHANGED <<buf, pc, callSeq, doneCap, removals, result, sending, mu, header,
                 seq, pending, closing, shutdown, wire, connClosed, codecCloses,
                 closeCalls, closeRet, responded, spurious, curSeq, curErr,
                 termTodo>>

\* Mutant of terminateCallsLock: only mu is taken, not the send lock.
terminateCallsLock_NoSendLock ==
  /\ pcR = "terminate"
  /\ mu = 0
  /\ mu' = RecvId
  /\ shutdown' = TRUE
  /\ termTodo' = PendingCalls
  /\ pcR' = "termloop"
  /\ UNCHANGED serverVars
  /\ UNCHANGED <<doneArg, inNext>>
  /\ UNCHANGED <<buf, pc, callSeq, callErr, callReply, doneCap, doneBuf, signals,
                 removals, result, sending, header, seq, pending, closing, wire,
                 connClosed, codecCloses, closeCalls, closeRet, responded,
                 spurious, curSeq, curErr, curCall, termErr>>

\* terminateCalls: c.sending.Lock(); c.mu.Lock(); c.shutdown = true, and the
\* range over c.pending starts.
terminateCallsLock ==
  /\ pcR = "terminate"
  /\ sending = 0
  /\ mu = 0
  /\ sending' = RecvId
  /\ mu' = RecvId
  /\ shutdown' = TRUE
  /\ termTodo' = PendingCalls
  /\ pcR' = "termloop"
  /\ UNCHANGED serverVars
  /\ UNCHANGED <<doneArg, inNext>>
  /\ UNCHANGED <<buf, pc, callSeq, callErr, callReply, doneCap, doneBuf, signals,
                 removals, result, header, seq, pending, closing, wire,
                 connClosed, codecCloses, closeCalls, closeRet, responded,
                 spurious, curSeq, curErr, curCall, termErr>>

\* Mutant of terminateCallsSignal: the error is stored and call.done() is
\* missing.
terminateCallsSignal_NoDone(c) ==
  /\ pcR = "termloop"
  /\ c \in termTodo
  /\ callErr' = [callErr EXCEPT ![c] = termErr]
  /\ termTodo' = termTodo \ {c}
  /\ UNCHANGED serverVars
  /\ UNCHANGED <<doneArg, inNext>>
  /\ UNCHANGED <<buf, pc, callSeq, callReply, doneCap, doneBuf, signals, removals,
                 result, sending, mu, header, seq, pending, closing, shutdown,
                 wire, connClosed, codecCloses, closeCalls, closeRet, responded,
                 spurious, pcR, curSeq, curErr, curCall, termErr>>

\* Mutant of terminateCallsSignal: call.done() runs and call.Error = err is
\* missing.
terminateCallsSignal_NoError(c) ==
  /\ pcR = "termloop"
  /\ c \in termTodo
  /\ CanDone(c)
  /\ done(c)
  /\ termTodo' = termTodo \ {c}
  /\ UNCHANGED serverVars
  /\ UNCHANGED <<doneArg, inNext>>
  /\ UNCHANGED <<buf, pc, callSeq, callErr, callReply, doneCap, removals, result,
                 sending, mu, header, seq, pending, closing, shutdown, wire,
                 connClosed, codecCloses, closeCalls, closeRet, responded,
                 spurious, pcR, curSeq, curErr, curCall, termErr>>

\* terminateCalls: one iteration of the range loop (Go ranges over a map in
\* no fixed order): call.Error = err; call.done().
terminateCallsSignal(c) ==
  /\ pcR = "termloop"
  /\ c \in termTodo
  /\ CanDone(c)
  /\ callErr' = [callErr EXCEPT ![c] = termErr]
  /\ done(c)
  /\ termTodo' = termTodo \ {c}
  /\ UNCHANGED serverVars
  /\ UNCHANGED <<doneArg, inNext>>
  /\ UNCHANGED <<buf, pc, callSeq, callReply, doneCap, removals, result, sending, mu,
                 header, seq, pending, closing, shutdown, wire, connClosed,
                 codecCloses, closeCalls, closeRet, responded, spurious, pcR,
                 curSeq, curErr, curCall, termErr>>

\* terminateCalls: the loop is over; the deferred unlocks run and receive
\* returns.
terminateCallsUnlock ==
  /\ pcR = "termloop"
  /\ termTodo = {}
  /\ sending' = IF sending = RecvId THEN 0 ELSE sending
  /\ mu' = 0
  /\ pcR' = "exited"
  /\ UNCHANGED serverVars
  /\ UNCHANGED <<doneArg, inNext>>
  /\ UNCHANGED <<buf, pc, callSeq, callErr, callReply, doneCap, doneBuf, signals,
                 removals, result, header, seq, pending, closing, shutdown, wire,
                 connClosed, codecCloses, closeCalls, closeRet, responded,
                 spurious, curSeq, curErr, curCall, termErr, termTodo>>

\* ------------------------------------------------------------ server model
Reqs == 1 .. MaxReqs

\* Service methods the peer asks for, as the pieces around each '.'.
Methods == {<<"Foo", ".", "Sum">>, <<"NoDotHere">>, <<"Bar", ".", "Sum">>,
            <<"Foo", ".", "Missing">>}

\* Server.serviceMap after Register(&foo): service name -> its method table.
serviceMap == [n \in {<<"Foo">>} |-> {<<"Sum">>}]

\* strings.LastIndex(serviceMethod, "."), counting from 1; 0 when there is none.
LastIndex(m) ==
  LET dots == {i \in 1 .. Len(m) : m[i] = "."} IN
    IF dots = {} THEN 0 ELSE CHOOSE i \in dots : \A j \in dots : j <= i

\* findService: the text of the error it returns, "" for nil.
findService(m) ==
  LET dot == LastIndex(m) IN
    IF dot = 0 THEN "rpc server: service/method request ill-formed"
    ELSE LET serviceName == SubSeq(m, 1, dot - 1)
             methodName == SubSeq(m, dot + 1, Len(m)) IN
           IF serviceName \notin DOMAIN serviceMap
             THEN "rpc server: can't find service"
             ELSE IF methodName \notin serviceMap[serviceName]
               THEN "rpc server: can't find method"
               ELSE ""

\* What the registered method returns through service.call: nil, an error, or
\* an error whose message is the empty string.
HandlerResults == {[err |-> FALSE, text |-> ""],
                   [err |-> TRUE, text |-> "handler error"],
                   [err |-> TRUE, text |-> ""]}

\* The error of the gob decoder when a body frame does not decode into argv.
BodyDecodeErr == "gob: decode error"

\* A response frame: the header (k = "h") or the body (k = "b") of the
\* response to request i.
RespHeaderFrame(i) == [k |-> "h", Seq |-> reqH[i].Seq, Error |-> reqH[i].Error,
                       body |-> "", req |-> i]

RespBodyFrame(i) == [k |-> "b", Seq |-> 0, Error |-> "", body |-> respBody[i],
                     req |-> i]

ServerInit ==
  /\ pcS = "readRequest"
  /\ nreq = 0
  /\ reqH = [i \in Reqs |-> [ServiceMethod |-> << >>, Seq |-> 0, Error |-> ""]]
  /\ inSeq = [i \in Reqs |-> 0]
  /\ reqBody = [i \in Reqs |-> "none"]
  /\ unread = 0
  /\ reqOutcome = [i \in Reqs |-> "none"]
  /\ respBody = [i \in Reqs |-> "none"]
  /\ hstate = [i \in Reqs |-> "none"]
  /\ srvSending = 0
  /\ out = << >>
  /\ wg = 0
  /\ srvClosed = FALSE
  /\ writesAfterClose = 0
  /\ bg = {}

\* Mutant of readRequest: handleRequest is called without go, the loop waits
\* for it.
readRequest_Synchronous(m, b) ==
  /\ pcS = "readRequest"
  /\ unread = 0
  /\ nreq < MaxReqs
  /\ LET i == nreq + 1
         e == findService(m) IN
       /\ nreq' = i
       /\ inSeq' = [inSeq EXCEPT ![i] = i]
       /\ reqBody' = [reqBody EXCEPT ![i] = b]
       /\ IF e # ""
            THEN /\ reqH' = [reqH EXCEPT ![i] = [ServiceMethod |-> m, Seq |-> i, Error |-> e]]
                 /\ unread' = i
                 /\ reqOutcome' = [reqOutcome EXCEPT ![i] = "resolveErr"]
                 /\ respBody' = [respBody EXCEPT ![i] = "invalidRequest"]
                 /\ hstate' = [hstate EXCEPT ![i] = "respond"]
                 /\ pcS' = "sendResponse"
                 /\ UNCHANGED wg
            ELSE IF b # "good"
              THEN /\ reqH' = [reqH EXCEPT ![i] = [ServiceMethod |-> m, Seq |-> i,
                                                   Error |-> BodyDecodeErr]]
                   /\ unread' = 0
                   /\ reqOutcome' = [reqOutcome EXCEPT ![i] = "bodyErr"]
                   /\ respBody' = [respBody EXCEPT ![i] = "invalidRequest"]
                   /\ hstate' = [hstate EXCEPT ![i] = "respond"]
                   /\ pcS' = "sendResponse"
                   /\ UNCHANGED wg
              ELSE /\ reqH' = [reqH EXCEPT ![i] = [ServiceMethod |-> m, Seq |-> i, Error |-> ""]]
                   /\ unread' = 0
                   /\ wg' = wg + 1
                   /\ hstate' = [hstate EXCEPT ![i] = "call"]
                   /\ pcS' = "handleRequest"
                   /\ UNCHANGED <<reqOutcome, respBody>>
  /\ UNCHANGED clientVars
  /\ UNCHANGED <<bg, acceptVars, extraVars>>
  /\ UNCHANGED <<srvSending, out, srvClosed, writesAfterClose>>

\* serveCodec: readRequest on the next request of the stream (header with
\* ServiceMethod m and the request's Seq, then a body frame that decodes when
\* b = "good"), and the branch serveCodec takes on its result.  readRequest
\* returns at the first failure: a failed lookup leaves the body frame unread.
readRequest(m, b) ==
  /\ pcS = "readRequest"
  /\ unread = 0
  /\ nreq < MaxReqs
  /\ LET i == nreq + 1
         e == findService(m) IN
       /\ nreq' = i
       /\ inSeq' = [inSeq EXCEPT ![i] = i]
       /\ reqBody' = [reqBody EXCEPT ![i] = b]
       /\ IF e # ""
            THEN /\ reqH' = [reqH EXCEPT ![i] = [ServiceMethod |-> m, Seq |-> i, Error |-> e]]
                 /\ unread' = i
                 /\ reqOutcome' = [reqOutcome EXCEPT ![i] = "resolveErr"]
                 /\ respBody' = [respBody EXCEPT ![i] = "invalidRequest"]
                 /\ hstate' = [hstate EXCEPT ![i] = "respond"]
                 /\ pcS' = "sendResponse"
                 /\ UNCHANGED wg
            ELSE IF b # "good"
              THEN /\ reqH' = [reqH EXCEPT ![i] = [ServiceMethod |-> m, Seq |-> i,
                                                   Error |-> BodyDecodeErr]]
                   /\ unread' = 0
                   /\ reqOutcome' = [reqOutcome EXCEPT ![i] = "bodyErr"]
                   /\ respBody' = [respBody EXCEPT ![i] = "invalidRequest"]
                   /\ hstate' = [hstate EXCEPT ![i] = "respond"]
                   /\ pcS' = "sendResponse"
                   /\ UNCHANGED wg
              ELSE /\ reqH' = [reqH EXCEPT ![i] = [ServiceMethod |-> m, Seq |-> i, Error |-> ""]]
                   /\ unread' = 0
                   /\ wg' = wg + 1
                   /\ hstate' = [hstate EXCEPT ![i] = "call"]
                   /\ pcS' = "readRequest"
                   /\ UNCHANGED <<reqOutcome, respBody>>
  /\ UNCHANGED clientVars
  /\ UNCHANGED <<bg, acceptVars, extraVars>>
  /\ UNCHANGED <<srvSending, out, srvClosed, writesAfterClose>>

\* serveCodec: readRequestHeader fails, so req is nil and the loop breaks:
\* the stream ended, or the frame that is next is the body frame a failed
\* lookup left unread, which gob does not decode into a Header.
readRequestHeaderError ==
  /\ pcS = "readRequest"
  /\ unread' = 0
  /\ pcS' = "wait"
  /\ UNCHANGED clientVars
  /\ UNCHANGED <<bg, acceptVars, extraVars>>
  /\ UNCHANGED <<nreq, reqH, inSeq, reqBody, reqOutcome, respBody, hstate,
                 srvSending, out, wg, srvClosed, writesAfterClose>>

\* Mutant of handleRequest: after a handler error the reply value is sent
\* instead of the placeholder.
handleRequest_ReplyOnError(i, r) ==
  /\ hstate[i] = "call"
  /\ IF r.err
       THEN /\ reqH' = [reqH EXCEPT ![i].Error = r.text]
            /\ reqOutcome' = [reqOutcome EXCEPT ![i] =
                                IF r.text = "" THEN "handlerErrEmpty" ELSE "handlerErr"]
       ELSE /\ reqOutcome' = [reqOutcome EXCEPT ![i] = "ok"]
            /\ UNCHANGED reqH
  /\ respBody' = [respBody EXCEPT ![i] = "replyv"]
  /\ hstate' = [hstate EXCEPT ![i] = "respond"]
  /\ UNCHANGED clientVars
  /\ UNCHANGED <<bg, acceptVars, extraVars>>
  /\ UNCHANGED <<pcS, nreq, inSeq, reqBody, unread, srvSending, out, wg,
                 srvClosed, writesAfterClose>>

\* handleRequest: req.svc.call returns r; the header's Error and the body to
\* send are chosen.
handleRequest(i, r) ==
  /\ hstate[i] = "call"
  /\ IF r.err
       THEN /\ reqH' = [reqH EXCEPT ![i].Error = r.text]
            /\ respBody' = [respBody EXCEPT ![i] = "invalidRequest"]
            /\ reqOutcome' = [reqOutcome EXCEPT ![i] =
                                IF r.text = "" THEN "handlerErrEmpty" ELSE "handlerErr"]
       ELSE /\ respBody' = [respBody EXCEPT ![i] = "replyv"]
            /\ reqOutcome' = [reqOutcome EXCEPT ![i] = "ok"]
            /\ UNCHANGED reqH
  /\ hstate' = [hstate EXCEPT ![i] = "respond"]
  /\ UNCHANGED clientVars
  /\ UNCHANGED <<bg, acceptVars, extraVars>>
  /\ UNCHANGED <<pcS, nreq, inSeq, reqBody, unread, srvSending, out, wg,
                 srvClosed, writesAfterClose>>

\* Mutant of sendResponseLock: the header is written without taking the lock.
sendResponseLock_NoLock(i) ==
  /\ hstate[i] = "respond"
  /\ out' = Append(out, RespHeaderFrame(i))
  /\ writesAfterClose' = writesAfterClose + (IF srvClosed THEN 1 ELSE 0)
  /\ hstate' = [hstate EXCEPT ![i] = "wroteHeader"]
  /\ UNCHANGED clientVars
  /\ UNCHANGED <<bg, acceptVars, extraVars>>
  /\ UNCHANGED <<pcS, nreq, reqH, inSeq, reqBody, unread, reqOutcome, respBody,
                 wg, srvClosed, srvSending>>

\* sendResponse, first half: sending.Lock(), and cc.Write encodes the header.
sendResponseLock(i) ==
  /\ hstate[i] = "respond"
  /\ srvSending = 0
  /\ srvSending' = i
  /\ out' = Append(out, RespHeaderFrame(i))
  /\ writesAfterClose' = writesAfterClose + (IF srvClosed THEN 1 ELSE 0)
  /\ hstate' = [hstate EXCEPT ![i] = "wroteHeader"]
  /\ UNCHANGED clientVars
  /\ UNCHANGED <<bg, acceptVars, extraVars>>
  /\ UNCHANGED <<pcS, nreq, reqH, inSeq, reqBody, unread, reqOutcome, respBody,
                 wg, srvClosed>>

\* sendResponse, second half: cc.Write encodes the body and flushes, the
\* deferred sending.Unlock() runs; a handler then runs its deferred wg.Done(),
\* the pipeline's own error path continues with the next readRequest.
sendResponseWrite(i) ==
  /\ hstate[i] = "wroteHeader"
  /\ out' = Append(out, RespBodyFrame(i))
  /\ writesAfterClose' = writesAfterClose + (IF srvClosed THEN 1 ELSE 0)
  /\ srvSending' = IF srvSending = i THEN 0 ELSE srvSending
  /\ hstate' = [hstate EXCEPT ![i] = "done"]
  /\ IF reqOutcome[i] \in {"resolveErr", "bodyErr"}
       THEN /\ pcS' = "readRequest"
            /\ UNCHANGED wg
       ELSE /\ wg' = wg - 1
            /\ UNCHANGED pcS
  /\ UNCHANGED clientVars
  /\ UNCHANGED <<bg, acceptVars, extraVars>>
  /\ UNCHANGED <<nreq, reqH, inSeq, reqBody, unread, reqOutcome, respBody,
                 srvClosed>>

\* Mutant of serveCodecClose: cc.Close() runs without wg.Wait().
serveCodecClose_NoWait ==
  /\ pcS = "wait"
  /\ srvClosed' = TRUE
  /\ pcS' = "closed"
  /\ UNCHANGED clientVars
  /\ UNCHANGED <<bg, acceptVars, extraVars>>
  /\ UNCHANGED <<nreq, reqH, inSeq, reqBody, unread, reqOutcome, respBody, hstate,
                 srvSending, out, wg, writesAfterClose>>

\* serveCodec after the loop: wg.Wait() returns and cc.Close() runs.
serveCodecClose ==
  /\ pcS = "wait"
  /\ wg = 0
  /\ srvClosed' = TRUE
  /\ pcS' = "closed"
  /\ UNCHANGED clientVars
  /\ UNCHANGED <<bg, acceptVars, extraVars>>
  /\ UNCHANGED <<nreq, reqH, inSeq, reqBody, unread, reqOutcome, respBody, hstate,
                 srvSending, out, wg, writesAfterClose>>

\* ------------------------------------------- server invocation timeout
\* The error text of a response sent because the timer fired.
TimeoutErr == "rpc server: request handle timeout"

\* Mutant of handleRequestTimeout: the timer fires and no response is sent.
handleRequestTimeout_NoResponse(i) ==
  /\ hstate[i] = "call"
  /\ reqOutcome' = [reqOutcome EXCEPT ![i] = "timeout"]
  /\ hstate' = [hstate EXCEPT ![i] = "timedout"]
  /\ bg' = bg \cup {i}
  /\ UNCHANGED clientVars
  /\ UNCHANGED <<acceptVars, extraVars>>
  /\ UNCHANGED <<pcS, nreq, reqH, inSeq, reqBody, unread, respBody,
                 srvSending, out, wg, srvClosed, writesAfterClose>>

\* The dispatched unit of request i, its timer firing before the handler
\* returns: the header's error becomes the timeout error and the response is
\* sent with the placeholder body, without waiting for the handler, which goes
\* on running.
handleRequestTimeout(i) ==
  /\ hstate[i] = "call"
  /\ reqH' = [reqH EXCEPT ![i].Error = TimeoutErr]
  /\ respBody' = [respBody EXCEPT ![i] = "invalidRequest"]
  /\ reqOutcome' = [reqOutcome EXCEPT ![i] = "timeout"]
  /\ hstate' = [hstate EXCEPT ![i] = "respond"]
  /\ bg' = bg \cup {i}
  /\ UNCHANGED clientVars
  /\ UNCHANGED <<acceptVars, extraVars>>
  /\ UNCHANGED <<pcS, nreq, inSeq, reqBody, unread, srvSending, out, wg,
                 srvClosed, writesAfterClose>>

\* The handler of a request that was answered with the timeout error
\* returns: its result is discarded.
handlerFinishLate(i) ==
  /\ i \in bg
  /\ bg' = bg \ {i}
  /\ UNCHANGED clientVars
  /\ UNCHANGED <<acceptVars, extraVars>>
  /\ UNCHANGED <<pcS, nreq, reqH, inSeq, reqBody, unread, reqOutcome,
                 respBody, hstate, srvSending, out, wg, srvClosed,
                 writesAfterClose>>

\* ------------------------------------------------------------ accept loop
\* Connections the listener hands to Accept.
Conns == 1 .. MaxConns

MagicNumber == 3927900

GobType == "application/gob"

JsonType == "application/json"

\* The codec types NewCodecFuncMap has a constructor for.
NewCodecFuncMap == {GobType}

\* What the JSON decoder makes of the first bytes of a connection: an Option
\* (ok) or an error.
Options ==
  [ok : {TRUE}, MagicNumber : {MagicNumber, MagicNumber + 1, 0},
   CodecType : {GobType, JsonType, "application/xml", ""}]
  \cup {[ok |-> FALSE, MagicNumber |-> 0, CodecType |-> ""]}

AcceptInit ==
  /\ lisOpen = TRUE
  /\ connStage = [k \in Conns |-> "none"]
  /\ connOpt = [k \in Conns |-> [ok |-> FALSE, MagicNumber |-> 0, CodecType |-> ""]]
  /\ connReads = [k \in Conns |-> 0]
  /\ connWrites = [k \in Conns |-> 0]

\* Accept: lis.Accept() returns connection k and ServeConn is started on it
\* in its own goroutine.
Accept(k) ==
  /\ lisOpen
  /\ connStage[k] = "none"
  /\ \A j \in Conns : j < k => connStage[j] # "none"
  /\ connStage' = [connStage EXCEPT ![k] = "accepted"]
  /\ UNCHANGED clientVars
  /\ UNCHANGED <<pcS, nreq, reqH, inSeq, reqBody, unread, reqOutcome, respBody, hstate, srvSending, out, wg, srvClosed, writesAfterClose, bg, extraVars>>
  /\ UNCHANGED <<lisOpen, connOpt, connReads, connWrites>>

\* Accept: lis.Accept() returns an error and Accept returns.
AcceptError ==
  /\ lisOpen
  /\ lisOpen' = FALSE
  /\ UNCHANGED clientVars
  /\ UNCHANGED <<pcS, nreq, reqH, inSeq, reqBody, unread, reqOutcome, respBody, hstate, srvSending, out, wg, srvClosed, writesAfterClose, bg, extraVars>>
  /\ UNCHANGED <<connStage, connOpt, connReads, connWrites>>

\* Mutant of ServeConnRejects: the magic number is not compared.
ServeConnRejects_NoMagic(o) ==
  \/ ~o.ok
  \/ o.CodecType \notin NewCodecFuncMap

\* ServeConn returns before serveCodec: the Option did not decode, its magic
\* number is not MagicNumber, or NewCodecFuncMap has no entry for its type.
ServeConnRejects(o) ==
  \/ ~o.ok
  \/ o.MagicNumber # MagicNumber
  \/ o.CodecType \notin NewCodecFuncMap

\* NewClient returns an error before anything is sent: NewCodecFuncMap has no
\* entry for the Option's codec type.
NewClientRejects(o) == o.CodecType \notin NewCodecFuncMap

\* ServeConn on connection k whose first bytes decode as o: it returns, and
\* its deferred conn.Close() runs, or it goes on to serveCodec.
ServeConn(k, o) ==
  /\ connStage[k] = "accepted"
  /\ connOpt' = [connOpt EXCEPT ![k] = o]
  /\ connStage' = [connStage EXCEPT ![k] = IF ServeConnRejects(o) THEN "closed"
                                            ELSE "serving"]
  /\ UNCHANGED clientVars
  /\ UNCHANGED <<pcS, nreq, reqH, inSeq, reqBody, unread, reqOutcome, respBody, hstate, srvSending, out, wg, srvClosed, writesAfterClose, bg, extraVars>>
  /\ UNCHANGED <<lisOpen, connReads, connWrites>>

\* serveCodec on connection k, one turn of its loop: a request header is
\* read and the header and body of its response are written.
serveCodecRequest(k) ==
  /\ connStage[k] = "serving"
  /\ connReads[k] < MaxConnReqs
  /\ connReads' = [connReads EXCEPT ![k] = @ + 1]
  /\ connWrites' = [connWrites EXCEPT ![k] = @ + 2]
  /\ UNCHANGED clientVars
  /\ UNCHANGED <<pcS, nreq, reqH, inSeq, reqBody, unread, reqOutcome, respBody, hstate, srvSending, out, wg, srvClosed, writesAfterClose, bg, extraVars>>
  /\ UNCHANGED <<lisOpen, connStage, connOpt>>

\* serveCodec on connection k: the stream ends, serveCodec returns and
\* ServeConn's deferred conn.Close() runs.
serveCodecEnd(k) ==
  /\ connStage[k] = "serving"
  /\ connStage' = [connStage EXCEPT ![k] = "closed"]
  /\ UNCHANGED clientVars
  /\ UNCHANGED <<pcS, nreq, reqH, inSeq, reqBody, unread, reqOutcome, respBody, hstate, srvSending, out, wg, srvClosed, writesAfterClose, bg, extraVars>>
  /\ UNCHANGED <<lisOpen, connOpt, connReads, connWrites>>

\* ------------------------------------------------- the client's two locks
\* Callers of IsAvailable the model lets run, one after the other.
AvailId == -2

AvailInit ==
  /\ availCalls = 0
  /\ availPc = "idle"
  /\ availRet = "none"

\* The client variables but the two locks, shutdown and the position of the
\* receive goroutine in terminateCalls.
clientRest == <<pc, callSeq, callErr, callReply, doneArg, inNext, doneCap,
                doneBuf, signals, removals, result, header, seq, pending,
                closing, buf, wire, connClosed, codecCloses, closeCalls,
                closeRet, responded, spurious, curSeq, curErr, curCall, termErr>>

\* IsAvailable: c.mu.Lock()
IsAvailableLock ==
  /\ availCalls < MaxAvail
  /\ availPc = "idle"
  /\ mu = 0
  /\ mu' = AvailId
  /\ availPc' = "locked"
  /\ availCalls' = availCalls + 1
  /\ UNCHANGED <<clientRest, sending, shutdown, pcR, termTodo>>
  /\ UNCHANGED connVars
  /\ UNCHANGED <<discoveryVars, registryVars, broadcastVars>>
  /\ UNCHANGED availRet

\* IsAvailable: return !c.shutdown && !c.closing, and the deferred
\* c.mu.Unlock().
IsAvailableReturn ==
  /\ availPc = "locked"
  /\ availRet' = IF ~shutdown /\ ~closing THEN "true" ELSE "false"
  /\ mu' = IF mu = AvailId THEN 0 ELSE mu
  /\ availPc' = "idle"
  /\ UNCHANGED <<clientRest, sending, shutdown, pcR, termTodo>>
  /\ UNCHANGED connVars
  /\ UNCHANGED <<discoveryVars, registryVars, broadcastVars>>
  /\ UNCHANGED availCalls

\* Mutant of terminateCallsSendingLock: the send lock is not taken.
terminateCallsSendingLock_NoLock ==
  /\ pcR = "terminate"
  /\ pcR' = "termmu"
  /\ UNCHANGED <<clientRest, sending, mu, shutdown, termTodo>>
  /\ UNCHANGED serverVars

\* terminateCalls, first statement: c.sending.Lock()
terminateCallsSendingLock ==
  /\ pcR = "terminate"
  /\ sending = 0
  /\ sending' = RecvId
  /\ pcR' = "termmu"
  /\ UNCHANGED <<clientRest, mu, shutdown, termTodo>>
  /\ UNCHANGED serverVars

\* terminateCalls, holding the send lock: c.mu.Lock(); c.shutdown = true, and
\* the range over c.pending starts.
terminateCallsMuLock ==
  /\ pcR = "termmu"
  /\ mu = 0
  /\ mu' = RecvId
  /\ shutdown' = TRUE
  /\ termTodo' = PendingCalls
  /\ pcR' = "termloop"
  /\ UNCHANGED <<clientRest, sending>>
  /\ UNCHANGED serverVars

\* ------------------------------------------------- MultiServersDiscovery
\* The addresses a caller may put into a server list.
Addrs == {"tcp@h1", "tcp@h2", "tcp@h3"}

\* The server lists handed to NewMultiServerDiscovery and Update: lists of
\* distinct addresses, the empty (or nil) one included.
ServerLists ==
  {l \in UNION {[1 .. n -> Addrs] : n \in 0 .. MaxServers} :
     \A i, j \in DOMAIN l : i # j => l[i] # l[j]}

RandomSelect == 0

RoundRobinSelect == 1

\* The modes a caller passes to Get; the last one is no declared SelectMode.
SelectModes == {RandomSelect, RoundRobinSelect, 2}

ErrNoServers == "rpc discovery: no available servers"

ErrSelectMode == "rpc discovery: not supported select mode"

DiscoveryInit ==
  /\ dMade = FALSE
  /\ dServers = << >>
  /\ dIndex = 0
  /\ dGets = 0
  /\ dUpdates = 0
  /\ dMode = RandomSelect
  /\ dSel = -1
  /\ dRet = [server |-> "", err |-> "nil"]
  /\ rrLog = << >>

\* NewMultiServerDiscovery(servers): index starts at d.r.Intn(math.MaxInt32 - 1),
\* here at some i0 of 0 .. MaxInitIndex.
NewMultiServerDiscovery(servers, i0) ==
  /\ ~dMade
  /\ dMade' = TRUE
  /\ dServers' = servers
  /\ dIndex' = i0
  /\ UNCHANGED <<dGets, dUpdates, dMode, dSel, dRet, rrLog>>
  /\ UNCHANGED <<clientVars, connVars, availVars, registryVars, broadcastVars>>

\* Update(servers), under d.mu: d.servers = servers.
Update(servers) ==
  /\ dMade
  /\ dUpdates < MaxUpdates
  /\ dUpdates' = dUpdates + 1
  /\ dServers' = servers
  /\ rrLog' = IF servers = dServers THEN rrLog ELSE << >>
  /\ UNCHANGED <<dMade, dIndex, dGets, dMode, dSel, dRet>>
  /\ UNCHANGED <<clientVars, connVars, availVars, registryVars, broadcastVars>>

\* Mutant of RoundRobinPos: d.index is used as it is.
RoundRobinPos_NoMod(index, n) == index

\* The position Get reads in round-robin mode: d.index % n.
RoundRobinPos(index, n) == index % n

\* d.servers[p] for a 0-based p; an index out of range panics.
ServerAt(p) ==
  IF p + 1 \in DOMAIN dServers THEN [server |-> dServers[p + 1], err |-> "nil"]
  ELSE [server |-> "", err |-> "panic: index out of range"]

\* Get(mode), under d.mu; r is what d.r.Intn(n) returns in random mode.
Get(mode, r) ==
  /\ dMade
  /\ dGets < MaxGets
  /\ dGets' = dGets + 1
  /\ dMode' = mode
  /\ LET n == Len(dServers) IN
       IF n = 0
         THEN /\ dRet' = [server |-> "", err |-> ErrNoServers]
              /\ dSel' = -1
              /\ UNCHANGED <<dIndex, rrLog>>
       ELSE IF mode = RandomSelect
         THEN /\ r < n
              /\ dSel' = r
              /\ dRet' = ServerAt(r)
              /\ UNCHANGED <<dIndex, rrLog>>
       ELSE IF mode = RoundRobinSelect
         THEN /\ dSel' = RoundRobinPos(dIndex, n)
              /\ dRet' = ServerAt(RoundRobinPos(dIndex, n))
              /\ dIndex' = IF ServerAt(RoundRobinPos(dIndex, n)).err = "nil"
                              THEN (dIndex + 1) % n ELSE dIndex
              /\ rrLog' = Append(rrLog, RoundRobinPos(dIndex, n))
       ELSE /\ dRet' = [server |-> "", err |-> ErrSelectMode]
            /\ dSel' = -1
            /\ UNCHANGED <<dIndex, rrLog>>
  /\ UNCHANGED <<dMade, dServers, dUpdates>>
  /\ UNCHANGED <<clientVars, connVars, availVars, registryVars, broadcastVars>>

\* ------------------------------------------------------------- GoRegistry
\* Server addresses as the bytes in which they differ: the ports "1", "10"
\* and "2" of one host.
RegAddrs == {<<49>>, <<49, 48>>, <<50>>}

\* The value of a missing X-goRPC-Server header.
NoAddr == << >>

\* The timeouts a registry is made with, in ticks.
Timeouts == -1 .. MaxTimeout

StatusOK == 200

StatusInternalServerError == 500

StatusMethodNotAllowed == 405

\* a < b for strings, byte by byte as Go compares them.
RECURSIVE StringLess(_, _)
StringLess(a, b) ==
  IF b = << >> THEN FALSE
  ELSE IF a = << >> THEN TRUE
  ELSE IF Head(a) # Head(b) THEN Head(a) < Head(b)
  ELSE StringLess(Tail(a), Tail(b))

\* x put into the sorted list q.
RECURSIVE Insert(_, _)
Insert(x, q) ==
  IF q = << >> THEN <<x>>
  ELSE IF StringLess(Head(q), x) THEN <<Head(q)>> \o Insert(x, Tail(q))
  ELSE <<x>> \o q

\* sort.Strings
RECURSIVE SortStrings(_)
SortStrings(q) ==
  IF q = << >> THEN << >> ELSE Insert(Head(q), SortStrings(Tail(q)))

\* The orders in which a range over a map with key set S can visit it.
RangeOrders(S) ==
  {q \in [1 .. Cardinality(S) -> S] : \A i, j \in DOMAIN q : i # j => q[i] # q[j]}

\* Mutant of IsAlive: a heartbeat exactly timeout old still counts.
IsAlive_Inclusive(start, timeout, t) == timeout = 0 \/ start + timeout >= t

\* aliveServers' test: r.timeout == 0 || s.start.Add(r.timeout).After(time.Now())
IsAlive(start, timeout, t) == timeout = 0 \/ start + timeout > t

RegistryInit ==
  /\ rMade = FALSE
  /\ rTimeout = 0
  /\ rServers = [a \in {} |-> 0]
  /\ now = 0
  /\ rAlive = << >>
  /\ rStatus = 0
  /\ rQueries = 0
  /\ beat = [a \in RegAddrs |-> -1]
  /\ late = {}
  /\ gone = {}

\* New(timeout)
New(timeout) ==
  /\ ~rMade
  /\ rMade' = TRUE
  /\ rTimeout' = timeout
  /\ rServers' = [a \in {} |-> 0]
  /\ UNCHANGED <<now, rAlive, rStatus, rQueries, beat, late, gone>>
  /\ UNCHANGED <<clientVars, connVars, availVars, discoveryVars, broadcastVars>>

\* The clock goes on by one tick.
Tick ==
  /\ rMade
  /\ now < MaxTime
  /\ now' = now + 1
  /\ late' = late \cup {a \in RegAddrs : beat[a] >= 0 /\ now + 1 - beat[a] >= rTimeout}
  /\ UNCHANGED <<rMade, rTimeout, rServers, rAlive, rStatus, rQueries, beat, gone>>
  /\ UNCHANGED <<clientVars, connVars, availVars, discoveryVars, broadcastVars>>

\* putServer(addr), under r.mu: a new ServerItem with start = time.Now(), or
\* the start of the one there is set to time.Now().
putServer(addr) ==
  /\ rServers' = [a \in DOMAIN rServers \cup {addr} |->
                    IF a = addr THEN now ELSE rServers[a]]
  /\ beat' = [beat EXCEPT ![addr] = now]
  /\ late' = IF 0 >= rTimeout THEN late \cup {addr} ELSE late
  /\ gone' = gone \ {addr}

\* aliveServers, under r.mu, ranging over r.servers in the given order: the
\* addresses that pass IsAlive are appended, the others deleted, and the
\* list is sorted.
aliveServers(order) ==
  /\ rQueries' = rQueries + 1
  /\ LET keep == {a \in DOMAIN rServers : IsAlive(rServers[a], rTimeout, now)}
         alive == SelectSeq(order, LAMBDA a : a \in keep)
     IN /\ rServers' = [a \in keep |-> rServers[a]]
        /\ rAlive' = SortStrings(alive)
        /\ gone' = gone \cup {a \in RegAddrs : beat[a] >= 0 /\ a \notin keep}

\* ServeHTTP: GET answers with the alive servers, POST with a server address
\* is a heartbeat, POST without one is an internal server error, any other
\* method is not allowed.
ServeHTTP(method, addr, order) ==
  /\ rMade
  /\ IF method = "GET"
       THEN /\ rQueries < MaxQueries
            /\ order \in RangeOrders(DOMAIN rServers)
            /\ aliveServers(order)
            /\ rStatus' = StatusOK
            /\ UNCHANGED <<beat, late>>
     ELSE IF method = "POST"
       THEN /\ order = << >>
            /\ IF addr = NoAddr
                 THEN /\ rStatus' = StatusInternalServerError
                      /\ UNCHANGED <<rServers, beat, late, gone>>
                 ELSE /\ putServer(addr)
                      /\ rStatus' = StatusOK
            /\ UNCHANGED <<rAlive, rQueries>>
     ELSE /\ order = << >>
          /\ addr = NoAddr
          /\ rStatus' = StatusMethodNotAllowed
          /\ UNCHANGED <<rServers, rAlive, rQueries, beat, late, gone>>
  /\ UNCHANGED <<rMade, rTimeout, now>>
  /\ UNCHANGED <<clientVars, connVars, availVars, discoveryVars, broadcastVars>>

\* ------------------------------------------------------ XClient.Broadcast
\* The goroutines of one Broadcast, numbered as the servers they call.
Goroutines == 1 .. MaxServers

\* A nil error, with no goroutine it came from.
NilErr == [who |-> 0, msg |-> "nil"]

\* The error of XDial in xc.dial.
DialErr == "dial error"

\* What xc.call can return: nil, the error of dial or of client.Call, and
\* once the context is cancelled its error.
CallResults(cancelled) ==
  {"nil", DialErr, SrvErr} \cup (IF cancelled THEN {CtxErr} ELSE {})

BroadcastInit ==
  /\ bcPc = "idle"
  /\ bcServers = << >>
  /\ bcReplyNil = FALSE
  /\ bcG = [i \in Goroutines |-> "none"]
  /\ bcErr = [i \in Goroutines |-> "none"]
  /\ bcE = NilErr
  /\ bcReplyDone = FALSE
  /\ bcReply = 0
  /\ bcWrites = 0
  /\ bcCancels = 0
  /\ bcWg = 0
  /\ bcOrder = << >>
  /\ bcRet = [who |-> 0, msg |-> "none"]

\* Broadcast up to its loop: servers is the copy GetAll makes of d.servers,
\* replyDone := reply == nil, and the context is derived.
Broadcast(replyNil) ==
  /\ dMade
  /\ bcPc = "idle"
  /\ bcPc' = "loop"
  /\ bcServers' = dServers
  /\ bcReplyNil' = replyNil
  /\ bcReplyDone' = replyNil
  /\ UNCHANGED <<bcG, bcErr, bcE, bcReply, bcWrites, bcCancels, bcWg, bcOrder, bcRet>>
  /\ UNCHANGED <<clientVars, connVars, availVars, discoveryVars, registryVars>>

\* Broadcast's loop, one turn: wg.Add(1) and the goroutine of the next server
\* is started; after the last one Broadcast is at wg.Wait().
BroadcastGo ==
  /\ bcPc = "loop"
  /\ LET started == {i \in Goroutines : bcG[i] # "none"}
         i == Cardinality(started) + 1
     IN IF i <= Len(bcServers)
          THEN /\ bcWg' = bcWg + 1
               /\ bcG' = [bcG EXCEPT ![i] = "call"]
               /\ UNCHANGED bcPc
          ELSE /\ bcPc' = "wait"
               /\ UNCHANGED <<bcWg, bcG>>
  /\ UNCHANGED <<bcServers, bcReplyNil, bcErr, bcE, bcReplyDone, bcReply, bcWrites,
                 bcCancels, bcOrder, bcRet>>
  /\ UNCHANGED <<clientVars, connVars, availVars, discoveryVars, registryVars>>

\* Goroutine i: xc.call returns err.
BroadcastCall(i, err) ==
  /\ bcG[i] = "call"
  /\ err \in CallResults(bcCancels > 0)
  /\ bcErr' = [bcErr EXCEPT ![i] = err]
  /\ bcG' = [bcG EXCEPT ![i] = "record"]
  /\ UNCHANGED <<bcPc, bcServers, bcReplyNil, bcE, bcReplyDone, bcReply, bcWrites,
                 bcCancels, bcWg, bcOrder, bcRet>>
  /\ UNCHANGED <<clientVars, connVars, availVars, discoveryVars, registryVars>>

\* Mutant of BroadcastRecord: e is set by every failure.
BroadcastRecord_LastError(i) ==
  /\ bcG[i] = "record"
  /\ bcOrder' = Append(bcOrder, i)
  /\ IF bcErr[i] # "nil"
       THEN /\ bcE' = [who |-> i, msg |-> bcErr[i]]
            /\ bcCancels' = bcCancels + 1
       ELSE UNCHANGED <<bcE, bcCancels>>
  /\ IF bcErr[i] = "nil" /\ ~bcReplyDone
       THEN /\ bcReply' = i
            /\ bcWrites' = bcWrites + 1
            /\ bcReplyDone' = TRUE
       ELSE UNCHANGED <<bcReply, bcWrites, bcReplyDone>>
  /\ bcG' = [bcG EXCEPT ![i] = "done"]
  /\ bcWg' = bcWg - 1
  /\ UNCHANGED <<bcPc, bcServers, bcReplyNil, bcErr, bcRet>>
  /\ UNCHANGED <<clientVars, connVars, availVars, discoveryVars, registryVars>>

\* Goroutine i, under Broadcast's mu: the first error is kept in e and the
\* context cancelled; the first successful call's reply is copied to the
\* caller's reply; then the deferred wg.Done().
BroadcastRecord(i) ==
  /\ bcG[i] = "record"
  /\ bcOrder' = Append(bcOrder, i)
  /\ IF bcErr[i] # "nil" /\ bcE = NilErr
       THEN /\ bcE' = [who |-> i, msg |-> bcErr[i]]
            /\ bcCancels' = bcCancels + 1
       ELSE UNCHANGED <<bcE, bcCancels>>
  /\ IF bcErr[i] = "nil" /\ ~bcReplyDone
       THEN /\ bcReply' = i
            /\ bcWrites' = bcWrites + 1
            /\ bcReplyDone' = TRUE
       ELSE UNCHANGED <<bcReply, bcWrites, bcReplyDone>>
  /\ bcG' = [bcG EXCEPT ![i] = "done"]
  /\ bcWg' = bcWg - 1
  /\ UNCHANGED <<bcPc, bcServers, bcReplyNil, bcErr, bcRet>>
  /\ UNCHANGED <<clientVars, connVars, availVars, discoveryVars, registryVars>>

\* Broadcast: wg.Wait() returns and e is returned.
BroadcastReturn ==
  /\ bcPc = "wait"
  /\ bcWg = 0
  /\ bcPc' = "returned"
  /\ bcRet' = bcE
  /\ UNCHANGED <<bcServers, bcReplyNil, bcG, bcErr, bcE, bcReplyDone, bcReply,
                 bcWrites, bcCancels, bcWg, bcOrder>>
  /\ UNCHANGED <<clientVars, connVars, availVars, discoveryVars, registryVars>>

\* ------------------------------------------------------------ specifications
Init ==
  /\ ClientInit /\ ServerInit /\ AcceptInit /\ AvailInit /\ DiscoveryInit
  /\ RegistryInit /\ BroadcastInit

\* The client: the goroutines running Go/Call, the callers of Close, the
\* receive goroutine and the peer.
Next ==
  \/ \E c \in Calls : Go(c, DoneArgOf(c))
  \/ \E c \in Calls : sendLock(c)
  \/ \E c \in Calls : sendRegister(c)
  \/ \E c \in Calls : sendWriteHeader(c)
  \/ \E c \in Calls : sendWriteBody(c)
  \/ \E c \in Calls : sendWriteFail(c)
  \/ \E c \in Calls : CallReturn(c)
  \/ Close
  \/ \E s \in 0 .. MaxCalls, e \in {"", SrvErr} : receiveHeader(s, e)
  \/ receiveHeaderError
  \/ \E ok \in BOOLEAN : receiveBody(ok)
  \/ terminateCallsLock
  \/ \E c \in Calls : terminateCallsSignal(c)
  \/ terminateCallsUnlock

\* One server connection: serveCodec and the handler goroutines it starts.
ServerNext ==
  \/ \E m \in Methods, b \in {"good", "bad"} : readRequest(m, b)
  \/ readRequestHeaderError
  \/ \E i \in Reqs, r \in HandlerResults : handleRequest(i, r)
  \/ \E i \in Reqs : sendResponseLock(i)
  \/ \E i \in Reqs : sendResponseWrite(i)
  \/ serveCodecClose

\* The client with callers that hand Go any done argument.
GoNext ==
  \/ \E c \in Calls, d \in DoneArgs : Go(c, d)
  \/ \E c \in Calls : sendLock(c)
  \/ \E c \in Calls : sendRegister(c)
  \/ \E c \in Calls : sendWriteHeader(c)
  \/ \E c \in Calls : sendWriteBody(c)
  \/ \E c \in Calls : sendWriteFail(c)
  \/ \E c \in Calls : CallReturn(c)
  \/ Close
  \/ \E s \in 0 .. MaxCalls, e \in {"", SrvErr} : receiveHeader(s, e)
  \/ receiveHeaderError
  \/ \E ok \in BOOLEAN : receiveBody(ok)
  \/ terminateCallsLock
  \/ \E c \in Calls : terminateCallsSignal(c)
  \/ terminateCallsUnlock

Spec == Init /\ [][Next]_vars

GoSpec == Init /\ [][GoNext]_vars

\* The client with callers of Call whose context may be cancelled.
CtxNext ==
  \/ Next
  \/ \E c \in Calls : CallCancelled(c)

CtxSpec == Init /\ [][CtxNext]_vars

ServerSpec == Init /\ [][ServerNext]_vars

\* The goroutine running serveCodec's loop: the peer sends a request or ends
\* the stream, and the loop's own error response gets written.
PipelineProgress ==
  \/ \E m \in Methods, b \in {"good", "bad"} : readRequest(m, b)
  \/ readRequestHeaderError
  \/ \E i \in Reqs : reqOutcome[i] \in {"resolveErr", "bodyErr"} /\ sendResponseLock(i)

\* A cc.Write that was started finishes.
WriteProgress == \E i \in Reqs : sendResponseWrite(i)

\* The server connection under a fair scheduler; a registered method may run
\* for ever, so handleRequest has no fairness.
ServerFairSpec ==
  /\ Init
  /\ [][ServerNext]_vars
  /\ WF_vars(PipelineProgress)
  /\ WF_vars(WriteProgress)

\* The caller goroutine of c is inside send (it holds or wants the send lock).
CallerProgress(c) ==
  \/ sendLock(c)
  \/ sendRegister(c)
  \/ sendWriteHeader(c)
  \/ sendWriteBody(c)
  \/ sendWriteFail(c)

\* The receive goroutine and the connection it reads: ReadHeader and ReadBody
\* return (a response or an error), terminateCalls runs to its end.
ReceiveProgress ==
  \/ \E s \in 0 .. MaxCalls, e \in {"", SrvErr} : receiveHeader(s, e)
  \/ receiveHeaderError
  \/ \E ok \in BOOLEAN : receiveBody(ok)
  \/ terminateCallsLock
  \/ \E c \in Calls : terminateCallsSignal(c)
  \/ terminateCallsUnlock

\* The client under a fair scheduler, on a connection whose reads return.
FairSpec ==
  /\ Init
  /\ [][Next]_vars
  /\ \A c \in Calls : WF_vars(CallerProgress(c))
  /\ WF_vars(ReceiveProgress)

\* The client with every lock operation a step of its own: callers of Go/Call,
\* Close and IsAvailable, the receive goroutine and its terminateCalls.
LockNext ==
  \/ \E c \in Calls : Go(c, DoneArgOf(c))
  \/ \E c \in Calls : sendLock(c)
  \/ \E c \in Calls : sendRegister(c)
  \/ \E c \in Calls : sendWriteHeader(c)
  \/ \E c \in Calls : sendWriteBody(c)
  \/ \E c \in Calls : sendWriteFail(c)
  \/ \E c \in Calls : CallReturn(c)
  \/ Close
  \/ IsAvailableLock
  \/ IsAvailableReturn
  \/ \E s \in 0 .. MaxCalls, e \in {"", SrvErr} : receiveHeader(s, e)
  \/ receiveHeaderError
  \/ \E ok \in BOOLEAN : receiveBody(ok)
  \/ terminateCallsSendingLock
  \/ terminateCallsMuLock
  \/ \E c \in Calls : terminateCallsSignal(c)
  \/ terminateCallsUnlock

\* The receive goroutine with terminateCalls taking its locks one by one.
LockReceiveProgress ==
  \/ \E s \in 0 .. MaxCalls, e \in {"", SrvErr} : receiveHeader(s, e)
  \/ receiveHeaderError
  \/ \E ok \in BOOLEAN : receiveBody(ok)
  \/ terminateCallsSendingLock
  \/ terminateCallsMuLock
  \/ \E c \in Calls : terminateCallsSignal(c)
  \/ terminateCallsUnlock

\* The lock-level client under a fair scheduler: a goroutine that can take
\* its next step takes it; callers need not read their Done channel.
LockFairSpec ==
  /\ Init
  /\ [][LockNext]_vars
  /\ \A c \in Calls : WF_vars(CallerProgress(c))
  /\ WF_vars(LockReceiveProgress)
  /\ WF_vars(IsAvailableReturn)

\* A MultiServersDiscovery and the callers of its Update and Get.
DiscoveryNext ==
  \/ \E l \in ServerLists, i0 \in 0 .. MaxInitIndex : NewMultiServerDiscovery(l, i0)
  \/ \E l \in ServerLists : Update(l)
  \/ \E m \in SelectModes, r \in 0 .. MaxServers - 1 : Get(m, r)

DiscoverySpec == Init /\ [][DiscoveryNext]_vars

\* A registry, its clock and the requests it is sent.
RegistryNext ==
  \/ \E t \in Timeouts : New(t)
  \/ Tick
  \/ \E m \in {"GET", "POST", "PUT"}, a \in RegAddrs \cup {NoAddr},
        o \in UNION {RangeOrders(S) : S \in SUBSET RegAddrs} : ServeHTTP(m, a, o)

RegistrySpec == Init /\ [][RegistryNext]_vars

\* One Broadcast of an XClient over a discovery, and an Update of the
\* discovery meanwhile.
BroadcastNext ==
  \/ \E l \in ServerLists : NewMultiServerDiscovery(l, 0)
  \/ \E l \in {<< >>, <<"tcp@h3">>} : Update(l)
  \/ \E n \in BOOLEAN : Broadcast(n)
  \/ BroadcastGo
  \/ \E i \in Goroutines, e \in CallResults(TRUE) : BroadcastCall(i, e)
  \/ \E i \in Goroutines : BroadcastRecord(i)
  \/ BroadcastReturn

BroadcastSpec == Init /\ [][BroadcastNext]_vars

\* The server connection whose handlers race a timer.
TimeoutNext ==
  \/ ServerNext
  \/ \E i \in Reqs : handleRequestTimeout(i)
  \/ \E i \in Reqs : handlerFinishLate(i)

TimeoutSpec == Init /\ [][TimeoutNext]_vars

\* The dispatched unit of request i: the handler returns or the timer fires,
\* and the unit gets the send lock.
DispatchProgress(i) ==
  \/ handleRequestTimeout(i)
  \/ \E r \in HandlerResults : handleRequest(i, r)
  \/ sendResponseLock(i)

\* The server connection with timers under a fair scheduler: a timer fires
\* unless the handler returned; a handler alone need not return.
TimeoutFairSpec ==
  /\ Init
  /\ [][TimeoutNext]_vars
  /\ WF_vars(PipelineProgress)
  /\ WF_vars(WriteProgress)
  /\ \A i \in Reqs : WF_vars(DispatchProgress(i))

\* The accept loop and the connections it starts ServeConn on.
AcceptNext ==
  \/ \E k \in Conns : Accept(k)
  \/ AcceptError
  \/ \E k \in Conns, o \in Options : ServeConn(k, o)
  \/ \E k \in Conns : serveCodecRequest(k)
  \/ \E k \in Conns : serveCodecEnd(k)

AcceptSpec == Init /\ [][AcceptNext]_vars

\* ------------------------------------------------------------------ claims

\* C1: under every interleaving of submissions, responses, write failures,
\* Close and the end of the receive loop, no Call is sent on its Done channel
\* more than once.
C1_SignalledAtMostOnce == \A c \in Calls : signals[c] <= 1

\* C1 witness: the receive loop has ended; one Call was completed by send
\* after a failed write and another one by terminateCalls.
C1_Witness ==
  /\ pcR = "exited"
  /\ \E c, d \in Calls :
       /\ callErr[c] = WriteErr /\ signals[c] = 1
       /\ d \in PendingCalls /\ callErr[d] \in ReadErrors /\ signals[d] = 1

\* C2: under fair scheduling and a connection whose reads return, every
\* submitted Call eventually receives a completion signal.
C2_EventuallySignalled == \A c \in Calls : (pc[c] = "lock") ~> (signals[c] >= 1)

\* C2 witness: a Call that was registered and written was completed after
\* Close, by terminateCalls.
C2_Witness ==
  \E c \in Calls :
    /\ closing
    /\ callSeq[c] \in CompleteReqs
    /\ c \in PendingCalls
    /\ signals[c] = 1

\* C3 as stated: once the receive loop has ended after Close, the Calls that
\* were pending (they are still in the table, nothing registers after Close)
\* have been completed with ErrShutdown.
C3_PendingGetErrShutdown ==
  (closing /\ pcR = "exited") =>
     \A c \in PendingCalls : signals[c] = 1 /\ callErr[c] = ErrShutdown

\* C3 amended: once the receive loop has ended, every registered Call has
\* been completed exactly once; those still in the pending table were
\* completed by terminateCalls with the read error that ended the loop, which
\* is never ErrShutdown; ErrShutdown is only given to a Call that registerCall
\* refused.
C3_PendingGetReadError ==
  /\ pcR = "exited" =>
       /\ termErr \in ReadErrors
       /\ \A c \in Calls : callSeq[c] # 0 =>
            /\ signals[c] = 1
            /\ callErr[c] # ErrShutdown
            /\ c \in PendingCalls => callErr[c] = termErr
  /\ \A c \in Calls : callErr[c] = ErrShutdown => callSeq[c] = 0

\* C3 witness: Close was called with a Call pending and the receive loop has
\* ended with that Call still in the table.
C3_Witness ==
  /\ closing
  /\ pcR = "exited"
  /\ termErr = "use of closed network connection"
  /\ PendingCalls # {}

\* C4: a submission that reaches registerCall while the client is closing or
\* shut down is completed in that step with ErrShutdown, and nothing is
\* written, the pending table and the sequence counter stay as they are.
C4_RefusedWithoutIO ==
  [][\A c \in Calls :
       (pc[c] = "register" /\ pc'[c] # "register" /\ (closing \/ shutdown)) =>
          /\ pc'[c] = "wait"
          /\ callErr'[c] = ErrShutdown
          /\ signals'[c] = signals[c] + 1
          /\ callSeq'[c] = 0
          /\ buf' = buf
          /\ wire' = wire
          /\ pending' = pending
          /\ seq' = seq]_vars

\* C4 witness: a Call submitted after Close was completed with ErrShutdown
\* while an earlier Call is registered.
C4_Witness ==
  \E c, d \in Calls :
    /\ closing
    /\ callErr[c] = ErrShutdown /\ signals[c] = 1 /\ callSeq[c] = 0
    /\ callSeq[d] # 0

\* C5 as stated: a Call is removed from the pending table at most once, and
\* after terminateCalls has run the table holds no entry.
C5_TableDrained ==
  /\ \A c \in Calls : removals[c] <= 1
  /\ pcR = "exited" => DOMAIN pending = {}

\* C5 amended: a registered Call is removed from the pending table at most
\* once (by receive, or by send after a failed write) and is in the table
\* exactly while it has not been removed; terminateCalls completes every entry
\* that is left and leaves the entries in the table.
C5_RemovedAtMostOnce ==
  /\ \A c \in Calls :
       /\ removals[c] <= 1
       /\ removals[c] = 1 => callSeq[c] # 0
       /\ callSeq[c] # 0 => (c \in PendingCalls <=> removals[c] = 0)
  /\ pcR = "exited" => \A c \in PendingCalls : signals[c] = 1 /\ removals[c] = 0

\* C5 witness: the receive loop has ended, one Call was removed and another
\* one is still in the table.
C5_Witness ==
  /\ pcR = "exited"
  /\ PendingCalls # {}
  /\ \E c \in Calls : removals[c] = 1

\* C8: a response completes the pending Call whose Seq is the header's Seq
\* and nothing else: the other entries of the table stay, an error response
\* sets that Call's Error, a success response fills that Call's Reply, no
\* other Call is touched and the receive loop goes on.
C8_CompletesMatchingCall ==
  [][/\ (pcR = "header" /\ pcR' = "body") =>
          /\ curCall' # NoCall => (callSeq[curCall'] = curSeq' /\ curCall' \in PendingCalls)
          /\ curCall' = NoCall => curSeq' \notin {callSeq[c] : c \in PendingCalls}
          /\ \A k \in DOMAIN pending \ {curSeq'} :
               k \in DOMAIN pending' /\ pending'[k] = pending[k]
     /\ (pcR = "body" /\ pcR' = "header") =>
          /\ pending' = pending
          /\ shutdown' = shutdown
          /\ \A d \in Calls \ {curCall} :
               /\ callErr'[d] = callErr[d]
               /\ callReply'[d] = callReply[d]
               /\ signals'[d] = signals[d]
          /\ curCall # NoCall =>
               /\ signals'[curCall] = signals[curCall] + 1
               /\ IF curErr # ""
                    THEN callErr'[curCall] = curErr /\ callReply'[curCall] = callReply[curCall]
                    ELSE callErr'[curCall] = callErr[curCall] /\ callReply'[curCall] = "filled"]_vars

\* C8 witness: the response to the second request arrived first: the Call
\* with Seq 2 has its Reply while the Call with Seq 1 is pending, untouched,
\* and the receive loop reads on.
C8_Witness ==
  \E c, d \in Calls :
    /\ callSeq[c] = 1 /\ c \in PendingCalls /\ signals[c] = 0 /\ callErr[c] = "nil"
    /\ callSeq[d] = 2 /\ signals[d] = 1 /\ callReply[d] = "filled"
    /\ pcR = "header"

\* The frames that are on the connection or will be at the next flush
\* (a closed connection takes no more).
Stream == IF connClosed THEN wire ELSE wire \o buf

\* C9: on the wire every header is directly followed by the body of the same
\* call and no frame of another call comes between them (a header without its
\* body can only be the last frame, of a Write that is under way or failed),
\* and each header written carries the method and the Seq of the call that
\* wrote it.
C9_AtomicRequest ==
  /\ \A i \in 1 .. Len(Stream) :
       /\ Stream[i].k = "h" =>
            IF i < Len(Stream)
              THEN Stream[i + 1].k = "b" /\ Stream[i + 1].by = Stream[i].by
              ELSE connClosed \/ pc[Stream[i].by] = "writeB"
       /\ Stream[i].k = "b" =>
            /\ i > 1
            /\ Stream[i - 1].k = "h"
            /\ Stream[i - 1].by = Stream[i].by
  /\ \A i \in 1 .. Len(wire \o buf) :
       LET f == (wire \o buf)[i] IN
         f.k = "h" => (f.Seq = callSeq[f.by] /\ f.ServiceMethod = MethodOf(f.by))

\* C9 witness: two callers were in send together (one writing, one waiting
\* for the send lock) and both requests are on the wire.
C9_Witness ==
  /\ Len(wire) = 4
  /\ wire[1].by # wire[3].by
  /\ wire[1].Seq = 1
  /\ wire[3].Seq = 2

\* C6 as stated: after the error response to a request whose method name does
\* not resolve, the stream is on a header boundary when the pipeline reads
\* the next header, and the response carries the request's Seq.
C6_StaysAligned ==
  \A i \in Reqs :
    (reqOutcome[i] = "resolveErr" /\ hstate[i] = "done") =>
       /\ \E j \in 1 .. Len(out) :
            out[j].k = "h" /\ out[j].req = i /\ out[j].Seq = inSeq[i] /\ out[j].Error # ""
       /\ pcS = "readRequest" => unread = 0

\* The positions in out of the header frames that answer request i.
RespHeaders(i) == {j \in 1 .. Len(out) : out[j].k = "h" /\ out[j].req = i}

\* The positions in out of the body frames that answer request i.
RespBodies(i) == {j \in 1 .. Len(out) : out[j].k = "b" /\ out[j].req = i}

\* Exactly one response to request i is in out, and it carries the request's Seq.
OneResponse(i) ==
  /\ Cardinality(RespHeaders(i)) = 1
  /\ Cardinality(RespBodies(i)) = 1
  /\ \A j \in RespHeaders(i) : out[j].Seq = inSeq[i]

C10_ResponsesSerialized ==
  /\ Cardinality({i \in Reqs : hstate[i] = "wroteHeader"}) <= 1
  /\ \A i \in Reqs : hstate[i] = "wroteHeader" => srvSending = i
  /\ \A j \in 1 .. Len(out) :
       /\ out[j].k = "h" =>
            IF j < Len(out)
              THEN out[j + 1].k = "b" /\ out[j + 1].req = out[j].req
              ELSE hstate[out[j].req] = "wroteHeader"
       /\ out[j].k = "b" =>
            /\ j > 1
            /\ out[j - 1].k = "h"
            /\ out[j - 1].req = out[j].req

\* C10 witness: a handler is between the header and the body of its response
\* while the pipeline's error path and another handler wait to write theirs.
C10_Witness ==
  \E i, j, k \in Reqs :
    /\ hstate[i] = "wroteHeader" /\ reqOutcome[i] \in {"ok", "handlerErr"}
    /\ hstate[j] = "respond" /\ reqOutcome[j] \in {"ok", "handlerErr"}
    /\ hstate[k] = "respond" /\ reqOutcome[k] \in {"resolveErr", "bodyErr"}

\* C11: the pipeline closes the codec only after the loop has ended and every
\* handler it dispatched has written its response and returned; no response
\* frame is written after that close.
C11_CloseAfterHandlers ==
  /\ writesAfterClose = 0
  /\ srvClosed =>
       /\ pcS = "closed"
       /\ wg = 0
       /\ srvSending = 0
       /\ \A i \in Reqs : hstate[i] \in {"none", "done"}
       /\ \A i \in Reqs : hstate[i] = "done" => OneResponse(i)

\* C11 witness: the codec was closed after two dispatched handlers, one of
\* them failing, wrote their responses.
C11_Witness ==
  /\ srvClosed
  /\ \E i, j \in Reqs :
       /\ hstate[i] = "done" /\ reqOutcome[i] = "ok"
       /\ hstate[j] = "done" /\ reqOutcome[j] = "handlerErr"

\* C16: whatever the number of Close calls, the codec is closed through Close
\* at most once: the first Close marks the client closing and closes the
\* codec, every later one returns ErrShutdown and closes nothing.
C16_CodecClosedOnce ==
  /\ codecCloses <= 1
  /\ closing <=> closeCalls >= 1
  /\ closeCalls >= 1 => codecCloses = 1 /\ connClosed
  /\ closeCalls = 1 => closeRet # ErrShutdown
  /\ closeCalls >= 2 => closeRet = ErrShutdown

\* C16 witness: Close was called again on a closing client and returned
\* ErrShutdown.
C16_Witness ==
  /\ closeCalls >= 2
  /\ closeRet = ErrShutdown
  /\ codecCloses = 1

\* The Calls registerCall gave a sequence number to.
Registered == {c \in Calls : callSeq[c] # 0}

\* C17: the sequence numbers given out are 1, 2, ... in the order of
\* registration, each to one Call (0 to none); every key k of the pending
\* table maps to a Call whose Seq is k, and k is below the next number.
C17_SeqUnique ==
  /\ [](/\ seq = FirstSeq + Cardinality(Registered)
        /\ {callSeq[c] : c \in Registered} = FirstSeq .. seq - 1
        /\ \A c, d \in Registered : c # d => callSeq[c] # callSeq[d]
        /\ \A k \in DOMAIN pending :
             k >= FirstSeq /\ k < seq /\ callSeq[pending[k]] = k)
  /\ [][\A c \in Calls : callSeq'[c] # callSeq[c] =>
           /\ callSeq[c] = 0
           /\ callSeq'[c] = seq
           /\ seq' = seq + 1
           /\ \A d \in Registered : callSeq[d] < callSeq'[c]
           /\ seq \notin DOMAIN pending
           /\ seq \in DOMAIN pending' /\ pending'[seq] = c]_vars

\* C17 witness: two Calls are registered, the first one was removed by its
\* response and the second one is in the table under its own number.
C17_Witness ==
  \E c, d \in Calls :
    /\ callSeq[c] = 1 /\ c \notin PendingCalls
    /\ callSeq[d] = 2 /\ 2 \in DOMAIN pending /\ pending[2] = d
    /\ seq = 3

\* The Call that a goroutine is about to send on its Done channel: receive
\* after ReadBody, terminateCalls in its loop, send after registerCall
\* refused or after a failed Write found the Call still pending.
AboutToSignal ==
  {c \in Calls :
     \/ pcR = "body" /\ curCall = c
     \/ pcR = "termloop" /\ c \in termTodo
     \/ pc[c] = "register" /\ sending = c /\ registerCallFails
     \/ pc[c] = "wfail" /\ c \in PendingCalls}

\* C18 as stated: for every Done channel Go accepts, one shared by several
\* Calls and not read included, a goroutine that is about to signal a Call
\* can do so at once: the channel has room.
C18_SignalNeverBlocks == \A c \in AboutToSignal : CanDone(c)

\* C19: Go given an unbuffered channel panics: the Call is never registered,
\* written or signalled, and the step leaves the pending table, the sequence
\* counter and the stream as they are; Go given nil makes a channel of
\* capacity 10, in which the Call's one signal always finds room.
C19_UnbufferedRejected ==
  /\ [](\A c \in Calls :
          /\ doneArg[c] = "unbuffered" =>
               /\ pc[c] = "panicked"
               /\ callSeq[c] = 0 /\ c \notin PendingCalls /\ signals[c] = 0
               /\ \A i \in 1 .. Len(wire \o buf) : (wire \o buf)[i].by # c
          /\ pc[c] = "panicked" => doneArg[c] = "unbuffered"
          /\ doneArg[c] = "nil" =>
               /\ doneCap[ChanOf(c)] = GoDoneCap
               /\ doneBuf[ChanOf(c)] <= 1
               /\ c \in AboutToSignal => CanDone(c))
  /\ [][\A c \in Calls : (pc[c] = "idle" /\ pc'[c] = "panicked") =>
           /\ pending' = pending /\ seq' = seq
           /\ wire' = wire /\ buf' = buf
           /\ sending' = sending /\ mu' = mu]_vars

\* C19 witness: one caller's Go panicked on an unbuffered channel after
\* another Call was registered, and a Call whose channel Go made has been
\* completed.
C19_Witness ==
  \E c, d \in Calls :
    /\ pc[c] = "panicked"
    /\ doneArg[d] = "nil" /\ callSeq[d] = 1 /\ signals[d] = 1
    /\ seq = 2

\* C20: a response header whose Seq matches no pending Call: removeCall
\* leaves the table as it is, ReadBody takes exactly the body of that response
\* off the stream, no Call is signalled or changed, and when that read
\* succeeded the loop reads on at the next header.
C20_UnmatchedDiscarded ==
  /\ [](pcR = "header" => inNext = "h")
  /\ [](pcR = "body" => inNext = "b")
  /\ [][/\ (pcR = "header" /\ pcR' = "body" /\ curCall' = NoCall) =>
             /\ pending' = pending
             /\ removals' = removals
        /\ (pcR = "body" /\ pcR' # "body" /\ curCall = NoCall) =>
             /\ inNext' = "h"
             /\ pending' = pending
             /\ signals' = signals /\ doneBuf' = doneBuf
             /\ callErr' = callErr /\ callReply' = callReply
             /\ pcR' = "header" => (termErr' = termErr /\ shutdown' = shutdown)]_vars

\* C20 witness: a second response for an answered Seq arrived while another
\* Call was pending; its body was discarded, the pending Call is untouched and
\* the loop is at the next header.
C20_Witness ==
  /\ spurious = 1
  /\ curSeq \in responded \cup {0}
  /\ pcR = "header"
  /\ inNext = "h"
  /\ \E c \in PendingCalls : signals[c] = 0 /\ callErr[c] = "nil"

\* C12: whether or not the handlers it dispatched return, the pipeline goes
\* on decoding and dispatching: it reads every request the peer sends or
\* reaches the end of its loop.
C12_PipelineNotBlocked == <>(nreq = MaxReqs \/ pcS \in {"wait", "closed"})

\* C12 witness: the handler of the first request has not returned, two later
\* requests were dispatched and the response to the third one was written
\* before the response to the second one.
C12_Witness ==
  /\ hstate[1] = "call"
  /\ reqOutcome[2] = "ok" /\ reqOutcome[3] = "ok"
  /\ Len(out) = 4
  /\ out[1].req = 3 /\ out[3].req = 2

C13_TimeoutAnswered ==
  /\ [](\A i \in Reqs :
          /\ i \in bg => reqOutcome[i] = "timeout"
          /\ Cardinality(RespHeaders(i)) <= 1
          /\ hstate[i] = "done" =>
               /\ OneResponse(i)
               /\ \A j \in RespHeaders(i), k \in RespBodies(i) :
                    /\ reqOutcome[i] = "timeout" =>
                         out[j].Error = TimeoutErr /\ out[k].body = "invalidRequest"
                    /\ reqOutcome[i] = "ok" =>
                         out[j].Error = "" /\ out[k].body = "replyv"
                    /\ reqOutcome[i] \in {"handlerErr", "handlerErrEmpty"} =>
                         out[j].Error # TimeoutErr /\ out[k].body = "invalidRequest")
  /\ \A i \in Reqs : (hstate[i] = "call") ~> (hstate[i] = "done")

\* C13 witness: the response with the timeout error was written while the
\* handler of that request is still running, and another request was answered
\* with its handler's reply.
C13_Witness ==
  \E i, j \in Reqs :
    /\ hstate[i] = "done" /\ reqOutcome[i] = "timeout" /\ i \in bg
    /\ hstate[j] = "done" /\ reqOutcome[j] = "ok"

\* The codec types the codec package declares.
DeclaredTypes == {GobType, JsonType}

\* C15: a connection whose Option has another magic number than MagicNumber
\* or a codec type that is not declared is closed with no request read and no
\* frame written, a connection that is served had the right magic number and
\* a declared type, and a rejection changes nothing of the other connections
\* or of the accept loop.
C15_HandshakeRejected ==
  /\ [](\A k \in Conns :
          /\ (/\ connStage[k] \in {"serving", "closed"}
              /\ connOpt[k].ok
              /\ \/ connOpt[k].MagicNumber # MagicNumber
                 \/ connOpt[k].CodecType \notin DeclaredTypes) =>
               connStage[k] = "closed" /\ connReads[k] = 0 /\ connWrites[k] = 0
          /\ (connStage[k] = "serving" \/ connReads[k] > 0 \/ connWrites[k] > 0) =>
               /\ connOpt[k].ok
               /\ connOpt[k].MagicNumber = MagicNumber
               /\ connOpt[k].CodecType \in DeclaredTypes)
  /\ [][\A k \in Conns : (connStage[k] = "accepted" /\ connStage'[k] = "closed") =>
           /\ lisOpen' = lisOpen
           /\ connReads' = connReads /\ connWrites' = connWrites
           /\ \A j \in Conns \ {k} :
                connStage'[j] = connStage[j] /\ connOpt'[j] = connOpt[j]]_vars

\* C15 witness: one connection was rejected for its magic number and one for
\* its codec type, before and after which a third one had requests served.
C15_Witness ==
  \E a, b, c \in Conns :
    /\ connStage[a] = "closed" /\ connOpt[a].ok
    /\ connOpt[a].MagicNumber # MagicNumber /\ connOpt[a].CodecType = GobType
    /\ connStage[b] = "closed" /\ connOpt[b].ok
    /\ connOpt[b].MagicNumber = MagicNumber /\ connOpt[b].CodecType = "application/xml"
    /\ connStage[c] = "serving" /\ connReads[c] = MaxConnReqs
    /\ a < c /\ c < b

\* C21: a handshake whose Option decodes, has the magic number MagicNumber and
\* names a declared codec type (gob or JSON) is taken on to serveCodec, and
\* NewClient accepts an Option of that type too.
C21_DeclaredTypesServed ==
  [][\A k \in Conns :
       (/\ connStage[k] = "accepted" /\ connStage'[k] # "accepted"
        /\ connOpt'[k].ok
        /\ connOpt'[k].MagicNumber = MagicNumber
        /\ connOpt'[k].CodecType \in DeclaredTypes) =>
         /\ connStage'[k] = "serving"
         /\ ~NewClientRejects(connOpt'[k])]_vars

\* C22: the client's two locks never deadlock. terminateCalls holds the table
\* lock only inside the send lock, nobody takes the send lock while holding
\* the table lock, Close and IsAvailable leave the send lock alone, and with
\* one Done channel per Call every holder of a lock releases it, every
\* goroutine waiting for the send lock gets it and terminateCalls runs to its
\* end.
C22_NoLockDeadlock ==
  /\ [](mu = RecvId => sending = RecvId)
  /\ [][(sending' # sending /\ sending' # 0) => (mu # sending' /\ mu' # sending')]_vars
  /\ [][(closeCalls' # closeCalls \/ availVars' # availVars) => sending' = sending]_vars
  /\ (sending # 0) ~> (sending = 0)
  /\ (mu # 0) ~> (mu = 0)
  /\ \A c \in Calls : (pc[c] = "lock") ~> (pc[c] # "lock")
  /\ (pcR \in {"terminate", "termmu"}) ~> (pcR = "exited")

\* C22 witness: terminateCalls holds both locks with a Call to complete while
\* a sender waits for the send lock and IsAvailable and Close were called.
C22_Witness ==
  /\ pcR = "termloop" /\ sending = RecvId /\ mu = RecvId
  /\ termTodo # {}
  /\ \E c \in Calls : pc[c] = "lock"
  /\ availCalls > 0 /\ closeCalls > 0

\* C23: round-robin Get on a non-empty list reads a position inside the
\* list, returns the server there with no error and leaves the index in
\* 0 .. n-1; while the list stays the same the positions follow one another
\* cyclically, so any n consecutive calls return every server once; Get on an
\* empty list returns the no-servers error and leaves the index alone.
C23_RoundRobin ==
  /\ [](LET n == Len(dServers) IN
          /\ \A j \in 1 .. Len(rrLog) : rrLog[j] \in 0 .. n - 1
          /\ \A j \in 1 .. Len(rrLog) - 1 : rrLog[j + 1] = (rrLog[j] + 1) % n
          /\ \A a \in 1 .. Len(rrLog) - n + 1 :
               n > 0 => {dServers[rrLog[j] + 1] : j \in a .. a + n - 1} =
                          {dServers[i] : i \in 1 .. n})
  /\ [][dGets' # dGets =>
          LET n == Len(dServers) IN
            /\ (n > 0 /\ dMode' = RoundRobinSelect) =>
                 /\ dSel' \in 0 .. n - 1
                 /\ dRet' = [server |-> dServers[dSel' + 1], err |-> "nil"]
                 /\ dIndex' \in 0 .. n - 1
                 /\ dIndex' = (dSel' + 1) % n
            /\ n = 0 =>
                 /\ dRet' = [server |-> "", err |-> ErrNoServers]
                 /\ dIndex' = dIndex]_vars

\* C23 witness: a list of three servers was installed by Update over a start
\* index beyond it, four round-robin Gets went round it and came back to the
\* server of the first one.
C23_Witness ==
  /\ Len(dServers) = 3 /\ dUpdates > 0
  /\ Len(rrLog) = 4 /\ rrLog[1] = rrLog[4] /\ rrLog[1] = 2
  /\ dRet.err = "nil" /\ dRet.server = dServers[3]

\* The addresses whose last heartbeat is less than the timeout old.
Fresh == {a \in RegAddrs : beat[a] >= 0 /\ now - beat[a] < rTimeout}

\* C24: with a timeout other than 0 a query returns, sorted, exactly the
\* addresses whose last heartbeat is less than timeout old, and only these
\* stay registered; an address whose heartbeats were never timeout old is in
\* every answer, an address a query left out is in none before its next
\* heartbeat; with timeout 0 a query returns every address ever registered
\* and nothing is removed.
C24_AliveServers ==
  /\ [][(rQueries' # rQueries /\ rTimeout # 0) =>
          /\ {rAlive'[i] : i \in DOMAIN rAlive'} = Fresh
          /\ Len(rAlive') = Cardinality(Fresh)
          /\ \A i \in 1 .. Len(rAlive') - 1 : StringLess(rAlive'[i], rAlive'[i + 1])
          /\ DOMAIN rServers' = Fresh
          /\ \A a \in RegAddrs : (beat[a] >= 0 /\ a \notin late) => a \in Fresh
          /\ Fresh \cap gone = {}]_vars
  /\ [][(rQueries' # rQueries /\ rTimeout = 0) =>
          /\ {rAlive'[i] : i \in DOMAIN rAlive'} = {a \in RegAddrs : beat[a] >= 0}
          /\ \A i \in 1 .. Len(rAlive') - 1 : StringLess(rAlive'[i], rAlive'[i + 1])]_vars
  /\ [][rTimeout = 0 => DOMAIN rServers \subseteq DOMAIN rServers']_vars

\* C24 witness: under a timeout of two ticks three servers registered; one
\* went on with its heartbeat and is the answer of the last query, one
\* expired and was removed, one was removed by an earlier query and has
\* registered again since.
C24_Witness ==
  /\ rTimeout = 2 /\ rQueries >= 2
  /\ rAlive = << <<49, 48>> >>
  /\ <<49, 48>> \notin late
  /\ <<50>> \in gone /\ beat[<<50>>] >= 0
  /\ <<49>> \in DOMAIN rServers /\ <<49>> \in late /\ <<49>> \notin gone
  /\ rStatus = StatusOK

\* The goroutines of the Broadcast whose call failed, in the order they held mu.
Failed == SelectSeq(bcOrder, LAMBDA i : bcErr[i] # "nil")

\* C25: Broadcast returns when every goroutine it started for the servers
\* GetAll gave it has finished; it returns nil exactly when every call
\* returned nil and else the error of the first failure recorded; the context
\* is cancelled at the first failure, once; the caller's reply is set at most
\* once, from a call that returned nil, and never when reply is nil or no call
\* succeeded.
C25_Broadcast ==
  /\ bcPc = "returned" =>
       /\ \A i \in 1 .. Len(bcServers) : bcG[i] = "done"
       /\ Len(bcOrder) = Len(bcServers)
       /\ (bcRet = NilErr) <=> (\A i \in 1 .. Len(bcServers) : bcErr[i] = "nil")
       /\ Failed # << >> => bcRet = [who |-> Failed[1], msg |-> bcErr[Failed[1]]]
  /\ bcCancels = (IF Failed = << >> THEN 0 ELSE 1)
  /\ bcWrites <= 1
  /\ bcReply # 0 => (bcErr[bcReply] = "nil" /\ ~bcReplyNil)
  /\ (bcReplyNil \/ \A k \in DOMAIN bcOrder : bcErr[bcOrder[k]] # "nil") => bcReply = 0
  /\ (~bcReplyNil /\ \E k \in DOMAIN bcOrder : bcErr[bcOrder[k]] = "nil") =>
       /\ bcReply # 0
       /\ \A k \in DOMAIN bcOrder :
            bcOrder[k] = bcReply => \A j \in 1 .. k - 1 : bcErr[bcOrder[j]] # "nil"

\* C25 witness: of three calls the second server's succeeded first and set
\* the reply, the third's failed and cancelled the context, the first's then
\* ended with the context's error, and Broadcast returned the third's error,
\* an Update of the discovery in between changing nothing of it.
C25_Witness ==
  /\ bcPc = "returned" /\ Len(bcServers) = 3 /\ ~bcReplyNil
  /\ bcOrder = <<2, 3, 1>>
  /\ bcReply = 2
  /\ bcErr[3] = SrvErr /\ bcErr[1] = CtxErr
  /\ bcRet = [who |-> 3, msg |-> SrvErr]
  /\ dServers # bcServers

====
